---- MODULE Spec2Model ----
(***************************************************************************)
(* Order-book engine of crypto-orderbook (internal/orderbook/orderbook.go) *)
(* and the worker that drives it (cmd main, startExchangesForSymbol).      *)
(*                                                                         *)
(* Decimal texts are modelled as pairs <<v, z>>: the text of the integer v *)
(* followed by z fractional zeros ("1", "1.0", "1.00", ...); z < 0 is a    *)
(* text that does not parse.  Map keys are the texts, the stored prices    *)
(* are the parsed decimals, as in the Go code.  Timestamps (EventTime,     *)
(* ConnectionTime) are not part of the modelled state.                     *)
(***************************************************************************)
EXTENDS Integers, Sequences, FiniteSets, TLC

VARIABLES
    ob,          \* the OrderBook of the worker (the struct's fields)
    wpc,         \* position of the worker goroutine of startExchangesForSymbol
    rpc,         \* position of the reinit goroutine inside CheckAndReinitialize
    fetched,     \* snapshot returned by getSnapshot, not yet loaded (reinit)
    registry,    \* orderbooksMap: the set of venue tags registered
    mode,        \* how the venue's adapter numbers its updates
    emitted,     \* final update id of the last update the stream produced
    delivered,   \* number of updates handed to HandleDepthUpdate so far
    lastOp,      \* name of the operation that made the last step
    lastUpd,     \* the update given to the last HandleDepthUpdate
    appliedNow,  \* the updates applyUpdate was called with in the last step
    agg,         \* the server's aggregator and the message being built from the book
    srv,         \* the server's clients, their lock, the broadcast queue and its two loops
    orch,        \* the orchestrator, the goroutines of its cycle, its two channels
    adp          \* one venue's adapter with its reader, the worker and the consumer using it

vars == <<ob, wpc, rpc, fetched, registry, mode, emitted, delivered,
          lastOp, lastUpd, appliedNow, agg, srv, orch, adp>>

---------------------------------------------------------------------------
(* Bounds of the model *)

MaxPrice == 2
MaxZeros == 1
MaxQty == 2
MaxId == 4
MaxSpan == 2
MaxSkip == 1
MaxBuffer == 3
MaxDelivered == 3
MaxBookDelivered == 2
MaxUpdateLevels == 2
MaxSnapshotLevels == 1
MaxGapDelivered == 106
MaxLead == 1
MaxAggLevels == 3
MaxPubDelivered == 2
MaxClients == 2
MaxRequests == 2
MaxSignals == 1
MaxTicks == 2
MaxQueued == 2
MaxCloses == 2
MaxMessages == 4
MaxCalls == 3
SnapshotTimeout == 2
MaxLoadLevels == 2
MaxLag == 1
MaxFilterLevels == 2

(* Program constants *)

AskSentinel == 999999999
ReinitBufferThreshold == 100
BroadcastCapacity == 100

---------------------------------------------------------------------------
(* Decimal texts and decimal.NewFromString *)

DecStr(v, z) == <<v, z>>

NewFromString(s) ==
    IF s[2] < 0 THEN [err |-> TRUE, val |-> 0]
                ELSE [err |-> FALSE, val |-> s[1]]

PriceStrs == {DecStr(p, z) : p \in 1..MaxPrice, z \in 0..MaxZeros}
QtyStrs == {DecStr(q, 0) : q \in 0..MaxQty}

---------------------------------------------------------------------------
(* Go maps keyed by the price text *)

EmptyMap == [k \in {} |-> 0]

MapPut(m, k, v) == [x \in (DOMAIN m) \cup {k} |-> IF x = k THEN v ELSE m[x]]

MapDelete(m, k) == [x \in (DOMAIN m) \ {k} |-> m[x]]

Prices(m) == {m[k].Price : k \in DOMAIN m}

SetMax(S) == CHOOSE x \in S : \A y \in S : y <= x

SetMin(S) == CHOOSE x \in S : \A y \in S : x <= y

(* price >= mid - mid*permille/1000 with mid = (bestBid+bestAsk)/2, exactly *)
InBidBand(price, b, permille) ==
    2000 * price >= (1000 - permille) * (b.bestBid + b.bestAsk)

(* price <= mid + mid*permille/1000 *)
InAskBand(price, b, permille) ==
    2000 * price <= (1000 + permille) * (b.bestBid + b.bestAsk)

---------------------------------------------------------------------------
(* types.Stats and orderbook.New *)

ZeroStats ==
    [EventsProcessed |-> 0, BufferedEvents |-> 0,
     BidLevels |-> 0, AskLevels |-> 0,
     BestBid |-> 0, BestAsk |-> 0, Spread |-> 0,
     BidLiquidity05Pct |-> 0, AskLiquidity05Pct |-> 0,
     BidLiquidity2Pct |-> 0, AskLiquidity2Pct |-> 0,
     BidLiquidity10Pct |-> 0, AskLiquidity10Pct |-> 0,
     DeltaLiquidity05Pct |-> 0, DeltaLiquidity2Pct |-> 0,
     DeltaLiquidity10Pct |-> 0,
     TotalBidsQty |-> 0, TotalAsksQty |-> 0, TotalDelta |-> 0]

New ==
    [bids |-> EmptyMap, asks |-> EmptyMap, lastUpdateID |-> 0,
     eventBuffer |-> <<>>, initialized |-> FALSE, stats |-> ZeroStats,
     bestBid |-> 0, bestAsk |-> 0, bidLevels |-> 0, askLevels |-> 0,
     lastApplied |-> 0, inOrder |-> TRUE]

---------------------------------------------------------------------------
(* Statistics *)

(* the loop over ob.bids of calculateLiquidityDepth, over the given keys *)
RECURSIVE bidLiquidity(_, _)
bidLiquidity(b, keys) ==
    IF keys = {} THEN [total |-> 0, liq05 |-> 0, liq2 |-> 0, liq10 |-> 0]
    ELSE LET k == CHOOSE x \in keys : TRUE
             level == b.bids[k]
             rest == bidLiquidity(b, keys \ {k})
         IN [total |-> rest.total + level.Quantity,
             liq05 |-> rest.liq05 +
                 IF InBidBand(level.Price, b, 5) THEN level.Quantity ELSE 0,
             liq2 |-> rest.liq2 +
                 IF InBidBand(level.Price, b, 20) THEN level.Quantity ELSE 0,
             liq10 |-> rest.liq10 +
                 IF InBidBand(level.Price, b, 100) THEN level.Quantity ELSE 0]

(* the loop over ob.asks of calculateLiquidityDepth, over the given keys *)
RECURSIVE askLiquidity(_, _)
askLiquidity(b, keys) ==
    IF keys = {} THEN [total |-> 0, liq05 |-> 0, liq2 |-> 0, liq10 |-> 0]
    ELSE LET k == CHOOSE x \in keys : TRUE
             level == b.asks[k]
             rest == askLiquidity(b, keys \ {k})
         IN [total |-> rest.total + level.Quantity,
             liq05 |-> rest.liq05 +
                 IF InAskBand(level.Price, b, 5) THEN level.Quantity ELSE 0,
             liq2 |-> rest.liq2 +
                 IF InAskBand(level.Price, b, 20) THEN level.Quantity ELSE 0,
             liq10 |-> rest.liq10 +
                 IF InAskBand(level.Price, b, 100) THEN level.Quantity ELSE 0]

(* TotalDelta is not assigned when a best price is zero *)
calculateLiquidityDepth(b) ==
    IF b.bestBid = 0 \/ b.bestAsk = 0
    THEN [b EXCEPT !.stats =
            [@ EXCEPT !.BidLiquidity05Pct = 0, !.AskLiquidity05Pct = 0,
                      !.BidLiquidity2Pct = 0, !.AskLiquidity2Pct = 0,
                      !.BidLiquidity10Pct = 0, !.AskLiquidity10Pct = 0,
                      !.DeltaLiquidity05Pct = 0, !.DeltaLiquidity2Pct = 0,
                      !.DeltaLiquidity10Pct = 0,
                      !.TotalBidsQty = 0, !.TotalAsksQty = 0]]
    ELSE LET bid == bidLiquidity(b, DOMAIN b.bids)
             ask == askLiquidity(b, DOMAIN b.asks)
         IN [b EXCEPT !.stats =
            [@ EXCEPT !.BidLiquidity05Pct = bid.liq05,
                      !.AskLiquidity05Pct = ask.liq05,
                      !.BidLiquidity2Pct = bid.liq2,
                      !.AskLiquidity2Pct = ask.liq2,
                      !.BidLiquidity10Pct = bid.liq10,
                      !.AskLiquidity10Pct = ask.liq10,
                      !.TotalBidsQty = bid.total,
                      !.TotalAsksQty = ask.total,
                      !.DeltaLiquidity05Pct = bid.liq05 - ask.liq05,
                      !.DeltaLiquidity2Pct = bid.liq2 - ask.liq2,
                      !.DeltaLiquidity10Pct = bid.liq10 - ask.liq10,
                      !.TotalDelta = bid.total - ask.total]]

(* a refresh whose spread is the plain difference of the best prices *)
updateCachedStats_PlainSpread(b) ==
    calculateLiquidityDepth(
        [b EXCEPT !.stats =
            [@ EXCEPT !.BidLevels = b.bidLevels,
                      !.AskLevels = b.askLevels,
                      !.BufferedEvents = Len(b.eventBuffer),
                      !.BestBid = b.bestBid,
                      !.BestAsk = b.bestAsk,
                      !.Spread = b.bestAsk - b.bestBid]])

updateCachedStats(b) ==
    calculateLiquidityDepth(
        [b EXCEPT !.stats =
            [@ EXCEPT !.BidLevels = b.bidLevels,
                      !.AskLevels = b.askLevels,
                      !.BufferedEvents = Len(b.eventBuffer),
                      !.BestBid = b.bestBid,
                      !.BestAsk = b.bestAsk,
                      !.Spread =
                          IF b.bestBid # 0 /\ b.bestAsk # 0 /\ b.bestAsk > b.bestBid
                          THEN b.bestAsk - b.bestBid ELSE 0]])

(* a recalculation that starts from the old best bid instead of zero *)
recalculateBestBid_KeepOld(b) ==
    [b EXCEPT !.bestBid = SetMax(Prices(b.bids) \cup {b.bestBid})]

(* bestBid = 0, then raised to every greater stored price *)
recalculateBestBid(b) ==
    [b EXCEPT !.bestBid = SetMax(Prices(b.bids) \cup {0})]

(* bestAsk = sentinel, lowered to every smaller stored price; 0 if untouched *)
recalculateBestAsk(b) ==
    LET low == SetMin(Prices(b.asks) \cup {AskSentinel})
    IN [b EXCEPT !.bestAsk = IF low = AskSentinel THEN 0 ELSE low]

updateStats(b) ==
    LET low == SetMin(Prices(b.asks) \cup {AskSentinel})
    IN updateCachedStats(
        [b EXCEPT !.bidLevels = Cardinality(DOMAIN b.bids),
                  !.askLevels = Cardinality(DOMAIN b.asks),
                  !.bestBid = SetMax(Prices(b.bids) \cup {0}),
                  !.bestAsk = IF DOMAIN b.asks = {} \/ low = AskSentinel
                              THEN 0 ELSE low])

---------------------------------------------------------------------------
(* a zero test that no quantity passes *)
IsZero_Never(q) == q < 0

(* decimal.Decimal.IsZero *)
IsZero(q) == q = 0

(* LoadSnapshot: the loop over snapshot.Bids, from entry i on.  A text that  *)
(* does not parse returns the error at once, with what was stored so far.   *)
RECURSIVE LoadSnapshotBids(_, _, _)
LoadSnapshotBids(b, levels, i) ==
    IF i > Len(levels) THEN [ob |-> b, err |-> FALSE]
    ELSE LET price == NewFromString(levels[i].Price)
             qty == NewFromString(levels[i].Quantity)
         IN IF price.err \/ qty.err THEN [ob |-> b, err |-> TRUE]
            ELSE IF ~IsZero(qty.val)
            THEN LoadSnapshotBids(
                    [b EXCEPT !.bids = MapPut(@, levels[i].Price,
                                   [Price |-> price.val, Quantity |-> qty.val]),
                              !.bestBid = IF price.val > @ THEN price.val ELSE @],
                    levels, i + 1)
            ELSE LoadSnapshotBids(b, levels, i + 1)

RECURSIVE LoadSnapshotAsks(_, _, _)
LoadSnapshotAsks(b, levels, i) ==
    IF i > Len(levels) THEN [ob |-> b, err |-> FALSE]
    ELSE LET price == NewFromString(levels[i].Price)
             qty == NewFromString(levels[i].Quantity)
         IN IF price.err \/ qty.err THEN [ob |-> b, err |-> TRUE]
            ELSE IF ~IsZero(qty.val)
            THEN LoadSnapshotAsks(
                    [b EXCEPT !.asks = MapPut(@, levels[i].Price,
                                   [Price |-> price.val, Quantity |-> qty.val]),
                              !.bestAsk = IF price.val < @ THEN price.val ELSE @],
                    levels, i + 1)
            ELSE LoadSnapshotAsks(b, levels, i + 1)

(* a load that keeps the levels stored before the call *)
LoadSnapshot_Merges(b, snapshot) ==
    LET reset == [b EXCEPT !.lastUpdateID = snapshot.LastUpdateID,
                           !.bestBid = 0, !.bestAsk = AskSentinel]
        rb == LoadSnapshotBids(reset, snapshot.Bids, 1)
        ra == LoadSnapshotAsks(rb.ob, snapshot.Asks, 1)
    IN IF rb.err THEN rb
       ELSE IF ra.err THEN ra
       ELSE [ob |-> updateStats(ra.ob), err |-> FALSE]

(* a load that also drops the buffered events *)
LoadSnapshot_ClearsBuffer(b, snapshot) ==
    LET reset == [b EXCEPT !.lastUpdateID = snapshot.LastUpdateID,
                           !.bids = EmptyMap, !.asks = EmptyMap,
                           !.bestBid = 0, !.bestAsk = AskSentinel,
                           !.eventBuffer = <<>>]
        rb == LoadSnapshotBids(reset, snapshot.Bids, 1)
        ra == LoadSnapshotAsks(rb.ob, snapshot.Asks, 1)
    IN IF rb.err THEN rb
       ELSE IF ra.err THEN ra
       ELSE [ob |-> updateStats(ra.ob), err |-> FALSE]

(* a load that leaves the book as it was when a text does not parse *)
LoadSnapshot_Atomic(b, snapshot) ==
    LET reset == [b EXCEPT !.lastUpdateID = snapshot.LastUpdateID,
                           !.bids = EmptyMap, !.asks = EmptyMap,
                           !.bestBid = 0, !.bestAsk = AskSentinel]
        rb == LoadSnapshotBids(reset, snapshot.Bids, 1)
        ra == LoadSnapshotAsks(rb.ob, snapshot.Asks, 1)
    IN IF rb.err \/ ra.err THEN [ob |-> b, err |-> TRUE]
       ELSE [ob |-> updateStats(ra.ob), err |-> FALSE]

(* LoadSnapshot returns the book and whether an error was returned *)
LoadSnapshot(b, snapshot) ==
    LET reset == [b EXCEPT !.lastUpdateID = snapshot.LastUpdateID,
                           !.bids = EmptyMap, !.asks = EmptyMap,
                           !.bestBid = 0, !.bestAsk = AskSentinel]
        rb == LoadSnapshotBids(reset, snapshot.Bids, 1)
        ra == LoadSnapshotAsks(rb.ob, snapshot.Asks, 1)
    IN IF rb.err THEN rb
       ELSE IF ra.err THEN ra
       ELSE [ob |-> updateStats(ra.ob), err |-> FALSE]

---------------------------------------------------------------------------
(* applyUpdate *)

(* one iteration of the loop over update.Bids; changed is bestBidChanged *)
applyBid(b, bid, changed) ==
    LET price == bid.Price
        qty == NewFromString(bid.Quantity).val
        priceDecimal == NewFromString(price).val
    IN IF IsZero(qty)
       THEN IF price \in DOMAIN b.bids
            THEN [ob |-> [b EXCEPT !.bids = MapDelete(@, price)],
                  changed |-> changed \/ priceDecimal = b.bestBid]
            ELSE [ob |-> b, changed |-> changed]
       ELSE [ob |-> [b EXCEPT !.bids = MapPut(@, price,
                                  [Price |-> priceDecimal, Quantity |-> qty]),
                              !.bestBid = IF priceDecimal > @ THEN priceDecimal ELSE @],
             changed |-> changed]

(* one iteration of the loop over update.Asks; changed is bestAskChanged *)
applyAsk(b, ask, changed) ==
    LET price == ask.Price
        qty == NewFromString(ask.Quantity).val
        priceDecimal == NewFromString(price).val
    IN IF IsZero(qty)
       THEN IF price \in DOMAIN b.asks
            THEN [ob |-> [b EXCEPT !.asks = MapDelete(@, price)],
                  changed |-> changed \/ priceDecimal = b.bestAsk]
            ELSE [ob |-> b, changed |-> changed]
       ELSE [ob |-> [b EXCEPT !.asks = MapPut(@, price,
                                  [Price |-> priceDecimal, Quantity |-> qty]),
                              !.bestAsk = IF priceDecimal < @ THEN priceDecimal ELSE @],
             changed |-> changed]

RECURSIVE applyBids(_, _, _, _)
applyBids(b, levels, i, changed) ==
    IF i > Len(levels) THEN [ob |-> b, changed |-> changed]
    ELSE LET r == applyBid(b, levels[i], changed)
         IN applyBids(r.ob, levels, i + 1, r.changed)

RECURSIVE applyAsks(_, _, _, _)
applyAsks(b, levels, i, changed) ==
    IF i > Len(levels) THEN [ob |-> b, changed |-> changed]
    ELSE LET r == applyAsk(b, levels[i], changed)
         IN applyAsks(r.ob, levels, i + 1, r.changed)

(* lastApplied is the place in the venue's stream (Index) of the update    *)
(* applied last, inOrder whether every update so far was applied after     *)
(* updates of lower Index only: they record the order of application       *)
applyUpdate(b, update) ==
    LET rb == applyBids(b, update.Bids, 1, FALSE)
        ra == applyAsks(rb.ob, update.Asks, 1, FALSE)
        b1 == IF rb.changed THEN recalculateBestBid(ra.ob) ELSE ra.ob
        b2 == IF ra.changed THEN recalculateBestAsk(b1) ELSE b1
    IN updateCachedStats(
           [b2 EXCEPT !.lastUpdateID = update.FinalUpdateID,
                      !.stats.EventsProcessed = @ + 1,
                      !.lastApplied = update.Index,
                      !.inOrder = @ /\ update.Index > b.lastApplied])

---------------------------------------------------------------------------
(* HandleDepthUpdate *)

(* continuity judged by the first id instead of the previous id *)
InSequence_ByFirst(b, update) == update.FirstUpdateID = b.lastUpdateID + 1

(* an overlap test that also accepts an update ending at lastUpdateID *)
Overlapping_Inclusive(b, update) ==
    /\ update.FirstUpdateID <= b.lastUpdateID + 1
    /\ update.FinalUpdateID >= b.lastUpdateID

(* update.PrevUpdateID == expectedPrevID *)
InSequence(b, update) == update.PrevUpdateID = b.lastUpdateID

(* the overlapping event accepted although its prev id differs *)
Overlapping(b, update) ==
    /\ update.FirstUpdateID <= b.lastUpdateID + 1
    /\ update.FinalUpdateID > b.lastUpdateID

(* an update that does not continue the book is dropped, not buffered *)
HandleDepthUpdate_DropsGap(b, update) ==
    IF ~b.initialized
    THEN [b EXCEPT !.eventBuffer = Append(@, update)]
    ELSE IF InSequence(b, update) \/ Overlapping(b, update)
         THEN applyUpdate(b, update)
         ELSE b

HandleDepthUpdate(b, update) ==
    IF ~b.initialized
    THEN [b EXCEPT !.eventBuffer = Append(@, update)]
    ELSE IF ~InSequence(b, update)
         THEN IF Overlapping(b, update)
              THEN applyUpdate(b, update)
              ELSE [b EXCEPT !.eventBuffer = Append(@, update)]
         ELSE applyUpdate(b, update)

---------------------------------------------------------------------------
(* ProcessBufferedEvents *)

(* the first loop: which buffered events go to validEvents *)
IsValidEvent(b, event) ==
    /\ ~(event.FinalUpdateID <= b.lastUpdateID)
    /\ event.FirstUpdateID <= b.lastUpdateID + 1
    /\ event.FinalUpdateID > b.lastUpdateID

RECURSIVE FilterValid(_, _, _)
FilterValid(b, buf, i) ==
    IF i > Len(buf) THEN <<>>
    ELSE IF IsValidEvent(b, buf[i])
         THEN <<buf[i]>> \o FilterValid(b, buf, i + 1)
         ELSE FilterValid(b, buf, i + 1)

ValidEvents(b) == FilterValid(b, b.eventBuffer, 1)

(* sort.Slice by FirstUpdateID: a sorted arrangement of the events; the    *)
(* sort is not stable, so events with equal FirstUpdateID come in any order *)
SortedByFirst(events) ==
    LET n == Len(events)
        perms == {p \in [1..n -> 1..n] : \A i, j \in 1..n : i # j => p[i] # p[j]}
    IN {[i \in 1..n |-> events[p[i]]] : p \in
           {q \in perms : \A i, j \in 1..n :
               i < j => events[q[i]].FirstUpdateID <= events[q[j]].FirstUpdateID}}

(* the second loop: applies each sorted event that continues the book *)
RECURSIVE applyValidEvents(_, _, _, _)
applyValidEvents(b, sorted, i, applied) ==
    IF i > Len(sorted) THEN [ob |-> b, applied |-> applied]
    ELSE IF sorted[i].FirstUpdateID <= b.lastUpdateID + 1
         THEN applyValidEvents(applyUpdate(b, sorted[i]), sorted, i + 1,
                               Append(applied, sorted[i]))
         ELSE applyValidEvents(b, sorted, i + 1, applied)

(* an early return that forgets to set the flag *)
NoValidEvents_FlagUnset(b) == [b EXCEPT !.eventBuffer = <<>>]

(* the branch taken when validEvents is empty *)
NoValidEvents(b) == [b EXCEPT !.eventBuffer = <<>>, !.initialized = TRUE]

(* a second loop that goes over the sorted events twice *)
ProcessBufferedEvents_Twice(b, sorted) ==
    IF Len(sorted) = 0
    THEN [ob |-> NoValidEvents(b), applied |-> <<>>]
    ELSE LET r == applyValidEvents([b EXCEPT !.eventBuffer = <<>>], sorted \o sorted, 1, <<>>)
         IN [ob |-> [r.ob EXCEPT !.initialized = TRUE], applied |-> r.applied]

(* returns the book and the events it applied, given the sorted validEvents *)
ProcessBufferedEvents(b, sorted) ==
    IF Len(sorted) = 0
    THEN [ob |-> NoValidEvents(b), applied |-> <<>>]
    ELSE LET r == applyValidEvents([b EXCEPT !.eventBuffer = <<>>], sorted, 1, <<>>)
         IN [ob |-> [r.ob EXCEPT !.initialized = TRUE], applied |-> r.applied]

---------------------------------------------------------------------------
(* Inputs: price levels, snapshots and the venue's stream of updates *)

Level(p, q) == [Price |-> p, Quantity |-> q]

(* the sequences of at most n elements of S *)
RECURSIVE SeqsUpTo(_, _)
SeqsUpTo(S, n) ==
    IF n = 0 THEN {<<>>}
    ELSE LET shorter == SeqsUpTo(S, n - 1)
         IN shorter \cup {Append(s, x) : s \in {r \in shorter : Len(r) = n - 1}, x \in S}

(* the (Bids, Asks) pairs with at most n levels in all over P x Q *)
LevelInputs(P, Q, n) ==
    LET L == {Level(p, q) : p \in P, q \in Q}
        S == SeqsUpTo(L, n)
    IN {<<bs, as>> \in S \X S : Len(bs) + Len(as) <= n}

DepthUpdate(first, final, prev, bs, as) ==
    [FirstUpdateID |-> first, FinalUpdateID |-> final, PrevUpdateID |-> prev,
     Bids |-> bs, Asks |-> as, Index |-> 0]

Snapshot(last, bs, as) == [LastUpdateID |-> last, Bids |-> bs, Asks |-> as]

NoUpdate == DepthUpdate(0, 0, 0, <<>>, <<>>)

(* The ids of the update that can follow a stream whose last update ended   *)
(* at cursor.  "zero": the adapter stamps 0 on every id (OKX, Kraken,       *)
(* Coinbase).  "ids": the venue numbers its updates upwards; an update       *)
(* covers first..final, ids may be skipped (an update dropped on a full      *)
(* channel, or numbering that is not dense), and prev is the id before       *)
(* first, the final id of the previous update, or 0 when the venue's message *)
(* carries no previous id.                                                   *)
StreamIds(md, cursor, maxSkip, maxSpan, maxId) ==
    IF md = "zero" THEN {<<0, 0, 0>>}
    ELSE {<<first, final, prev>> \in
             (cursor + 1 .. cursor + 1 + maxSkip) \X (cursor + 1 .. maxId) \X (0 .. maxId) :
               /\ first <= final
               /\ final < first + maxSpan
               /\ prev \in {first - 1, cursor, 0}}

StreamUpdates(ids, inputs) ==
    {DepthUpdate(i[1], i[2], i[3], lv[1], lv[2]) : i \in ids, lv \in inputs}

(* Spec: every numbering of the stream, few price levels *)
SeqLevelInputs == LevelInputs({DecStr(1, 0)}, {DecStr(0, 0), DecStr(1, 0)}, 1)

SeqUpdates ==
    StreamUpdates(StreamIds(mode, emitted, MaxSkip, MaxSpan, MaxId), SeqLevelInputs)

SeqSnapshots ==
    {Snapshot(l, lv[1], lv[2]) :
        l \in (IF mode = "zero" THEN {0} ELSE 0 .. MaxId - 1),
        lv \in {<<<<>>, <<>>>>,
                <<<<Level(DecStr(1, 0), DecStr(1, 0))>>,
                  <<Level(DecStr(2, 0), DecStr(1, 0))>>>>}}

(* the ids an adapter makes up: 0 everywhere ("zero"), or the time of the  *)
(* venue's message as first and final id and that time less one as the     *)
(* previous id ("time"); the times of a stream grow                        *)
SynthIds(md, cursor, maxSkip, maxId) ==
    IF md = "zero" THEN {<<0, 0, 0>>}
    ELSE {<<time, time, time - 1>> :
             time \in {x \in cursor + 1 .. cursor + 1 + maxSkip : x <= maxId}}

SynthUpdates ==
    StreamUpdates(SynthIds(mode, emitted, MaxSkip, MaxId), SeqLevelInputs)

(* SpecBook: every price level, the all-zero numbering *)
BookUpdates ==
    StreamUpdates({<<0, 0, 0>>}, LevelInputs(PriceStrs, QtyStrs, MaxUpdateLevels))

BookSnapshots ==
    LET S == SeqsUpTo({Level(p, q) : p \in PriceStrs, q \in QtyStrs}, MaxSnapshotLevels)
    IN {Snapshot(0, bs, as) : bs \in S, as \in S}

(* SpecGap: a densely numbered stream, one update per id, prev = id - 1;   *)
(* the update with id n sets the bid at price 1 to quantity 1 + n % 2.     *)
GapUpdates ==
    {DepthUpdate(i[1], i[2], i[3],
                 <<Level(DecStr(1, 0), DecStr(1 + (i[1] % 2), 0))>>, <<>>) :
        i \in {j \in StreamIds(mode, emitted, 0, 1, MaxGapDelivered) : j[3] = j[1] - 1}}

(* the venue's snapshot: taken at the last update delivered, or up to       *)
(* MaxLead updates ahead of it (updates still queued in the adapter)        *)
GapSnapshots ==
    {Snapshot(emitted + lead,
              <<Level(DecStr(1, 0), DecStr(1, 0))>>,
              <<Level(DecStr(2, 0), DecStr(1, 0))>>) : lead \in 0 .. MaxLead}

(* SpecLag: the venue's snapshot may be up to MaxLag updates older than    *)
(* the last update delivered                                                *)
LagSnapshots ==
    {Snapshot(emitted - lag,
              <<Level(DecStr(1, 0), DecStr(1, 0))>>,
              <<Level(DecStr(2, 0), DecStr(1, 0))>>) :
        lag \in {x \in 0 .. MaxLag : x <= emitted}}

(* a text decimal.NewFromString rejects *)
NotANumber == <<0, 0 - 1>>

(* SpecLoad: the snapshot a reinitialization fetches *)
LoadLevels ==
    {Level(DecStr(1, 0), DecStr(2, 0)), Level(DecStr(2, 0), DecStr(2, 0)),
     Level(DecStr(2, 0), DecStr(0, 0)),
     Level(NotANumber, DecStr(2, 0)), Level(DecStr(1, 0), NotANumber)}

LoadSnapshots ==
    LET S == SeqsUpTo(LoadLevels, MaxLoadLevels)
    IN {Snapshot(emitted, lv[1], lv[2]) :
           lv \in {x \in S \X S : Len(x[1]) + Len(x[2]) <= MaxLoadLevels}}

---------------------------------------------------------------------------
(* The worker goroutine of startExchangesForSymbol and its updates consumer *)

Tag == "venue"

(* what a step of the worker, the consumer or the reinit goroutine records, *)
(* and the state of the server it does not touch                            *)
Ghost(op, upd, applied) ==
    /\ lastOp' = op
    /\ lastUpd' = upd
    /\ appliedNow' = applied
    /\ UNCHANGED <<agg, srv, orch, adp>>

(* ob.LoadSnapshot(snapshot) of the worker; an error ends the worker *)
WorkerLoadSnapshot(snapshots) ==
    /\ wpc = "start"
    /\ \E s \in snapshots :
         LET r == LoadSnapshot(ob, s)
         IN /\ ob' = r.ob
            /\ wpc' = IF r.err THEN "exited" ELSE "loaded"
    /\ Ghost("LoadSnapshot", NoUpdate, <<>>)
    /\ UNCHANGED <<rpc, fetched, registry, mode, emitted, delivered>>

ConsumerRunning == wpc \in {"loaded", "processed", "registered"}

(* the updates consumer: ob.HandleDepthUpdate(update) for the next update;  *)
(* trace says whether lastUpd and appliedNow record the update; Index is    *)
(* the update's place in the stream the adapter emitted                     *)
Consume(updates, maxDelivered, maxBuffer, trace) ==
    /\ ConsumerRunning
    /\ delivered < maxDelivered
    /\ \E e \in updates :
         LET u == [e EXCEPT !.Index = delivered + 1] IN
         /\ ob' = HandleDepthUpdate(ob, u)
         /\ Len(ob'.eventBuffer) <= maxBuffer
         /\ emitted' = IF mode = "zero" THEN emitted ELSE u.FinalUpdateID
         /\ Ghost("HandleDepthUpdate",
                  IF trace THEN u ELSE NoUpdate,
                  IF trace /\ ob'.stats.EventsProcessed # ob.stats.EventsProcessed
                  THEN <<u>> ELSE <<>>)
    /\ delivered' = delivered + 1
    /\ UNCHANGED <<wpc, rpc, fetched, registry, mode>>

(* the consumer under SpecGap: the worker calls ProcessBufferedEvents right *)
(* after it has started the consumer, so at most MaxBuffer updates are      *)
(* handled between its LoadSnapshot and its ProcessBufferedEvents           *)
ConsumeGap ==
    /\ wpc = "loaded" => Len(ob.eventBuffer) < MaxBuffer
    /\ Consume(GapUpdates, MaxGapDelivered, MaxGapDelivered, TRUE)

(* ob.ProcessBufferedEvents() of the worker *)
WorkerProcessBufferedEvents ==
    /\ wpc = "loaded"
    /\ \E sorted \in SortedByFirst(ValidEvents(ob)) :
         LET r == ProcessBufferedEvents(ob, sorted)
         IN /\ ob' = r.ob
            /\ Ghost("ProcessBufferedEvents", NoUpdate, r.applied)
    /\ wpc' = "processed"
    /\ UNCHANGED <<rpc, fetched, registry, mode, emitted, delivered>>

(* registration placed before ProcessBufferedEvents *)
WorkerRegister_Early ==
    /\ wpc = "loaded"
    /\ registry' = registry \cup {Tag}
    /\ wpc' = "registered"
    /\ Ghost("Register", NoUpdate, <<>>)
    /\ UNCHANGED <<ob, rpc, fetched, mode, emitted, delivered>>

(* orderbooksMap[name] = ob, after ProcessBufferedEvents has returned *)
WorkerRegister ==
    /\ wpc = "processed"
    /\ registry' = registry \cup {Tag}
    /\ wpc' = "registered"
    /\ Ghost("Register", NoUpdate, <<>>)
    /\ UNCHANGED <<ob, rpc, fetched, mode, emitted, delivered>>

(* updatesDone, done or interrupt: delete(orderbooksMap, name) *)
WorkerShutdown ==
    /\ wpc = "registered"
    /\ registry' = registry \ {Tag}
    /\ wpc' = "stopped"
    /\ Ghost("Shutdown", NoUpdate, <<>>)
    /\ UNCHANGED <<ob, rpc, fetched, mode, emitted, delivered>>

---------------------------------------------------------------------------
(* The reinit goroutine: CheckAndReinitialize, one action per locked section *)

(* the ticker fires and the read-locked section sees shouldReinit; a tick   *)
(* that sees at most ReinitBufferThreshold buffered events changes nothing  *)
CheckAndReinitialize ==
    /\ ConsumerRunning
    /\ rpc = "idle"
    /\ Len(ob.eventBuffer) > ReinitBufferThreshold
    /\ rpc' = "flip"
    /\ Ghost("CheckAndReinitialize", NoUpdate, <<>>)
    /\ UNCHANGED <<ob, wpc, fetched, registry, mode, emitted, delivered>>

(* a reinitialization that drops the buffered events when it begins *)
ReinitFlip_DropsBuffer ==
    /\ rpc = "flip"
    /\ ob' = [ob EXCEPT !.initialized = FALSE, !.eventBuffer = <<>>]
    /\ rpc' = "fetch"
    /\ Ghost("ReinitFlip", NoUpdate, <<>>)
    /\ UNCHANGED <<wpc, fetched, registry, mode, emitted, delivered>>

(* ob.initialized = false *)
ReinitFlip ==
    /\ rpc = "flip"
    /\ ob' = [ob EXCEPT !.initialized = FALSE]
    /\ rpc' = "fetch"
    /\ Ghost("ReinitFlip", NoUpdate, <<>>)
    /\ UNCHANGED <<wpc, fetched, registry, mode, emitted, delivered>>

(* getSnapshot() returns a snapshot *)
ReinitGetSnapshot(snapshots) ==
    /\ rpc = "fetch"
    /\ \E s \in snapshots : fetched' = s
    /\ rpc' = "load"
    /\ Ghost("GetSnapshot", NoUpdate, <<>>)
    /\ UNCHANGED <<ob, wpc, registry, mode, emitted, delivered>>

(* getSnapshot() returns an error: CheckAndReinitialize returns *)
ReinitGetSnapshotFails ==
    /\ rpc = "fetch"
    /\ rpc' = "idle"
    /\ Ghost("GetSnapshotFails", NoUpdate, <<>>)
    /\ UNCHANGED <<ob, wpc, fetched, registry, mode, emitted, delivered>>

(* ob.LoadSnapshot(snapshot); an error makes CheckAndReinitialize return *)
ReinitLoadSnapshot ==
    /\ rpc = "load"
    /\ LET r == LoadSnapshot(ob, fetched)
       IN /\ ob' = r.ob
          /\ rpc' = IF r.err THEN "idle" ELSE "process"
    /\ Ghost("LoadSnapshot", NoUpdate, <<>>)
    /\ UNCHANGED <<wpc, fetched, registry, mode, emitted, delivered>>

(* ob.ProcessBufferedEvents() of CheckAndReinitialize *)
ReinitProcessBufferedEvents ==
    /\ rpc = "process"
    /\ \E sorted \in SortedByFirst(ValidEvents(ob)) :
         LET r == ProcessBufferedEvents(ob, sorted)
         IN /\ ob' = r.ob
            /\ Ghost("ReinitProcessBufferedEvents", NoUpdate, r.applied)
    /\ rpc' = "idle"
    /\ UNCHANGED <<wpc, fetched, registry, mode, emitted, delivered>>

---------------------------------------------------------------------------
(* The tick aggregator (internal/aggregation) and buildOrderbookMessage.    *)
(* Decimal prices and quantities are counted here in twentieths, so that    *)
(* the smallest tick, 0.1, is 2 and a price can lie between two of its      *)
(* multiples.                                                               *)

(* types.AvailableTickLevels: 0.1, 1, 10, 50, 100 *)
AvailableTickLevels == {2, 20, 200, 1000, 2000}

(* types.Tick1, the tick of aggregation.New in NewServer *)
Tick1 == 20

(* decimal.Decimal.String: the canonical text, without trailing zeros *)
String(d) == DecStr(d, 0)

(* bids rounded up, as asks are *)
roundToTickBid_Ceil(price, tick) ==
    IF tick = 0 THEN price
    ELSE (IF price % tick = 0 THEN price \div tick ELSE (price \div tick) + 1) * tick

(* floor(price / tickSize) * tickSize *)
roundToTickBid(price, tick) ==
    IF tick = 0 THEN price ELSE (price \div tick) * tick

(* asks moved to the next multiple of the tick even when they are on one *)
roundToTickAsk_Next(price, tick) ==
    IF tick = 0 THEN price ELSE ((price \div tick) + 1) * tick

(* ceil(price / tickSize) * tickSize *)
roundToTickAsk(price, tick) ==
    IF tick = 0 THEN price
    ELSE (IF price % tick = 0 THEN price \div tick ELSE (price \div tick) + 1) * tick

(* the loop over levels, from entry i on, filling tickMap; bid says which   *)
(* rounding applies                                                         *)
RECURSIVE fillTickMap(_, _, _, _, _)
fillTickMap(tickMap, levels, i, tick, bid) ==
    IF i > Len(levels) THEN tickMap
    ELSE LET level == levels[i]
             roundedPrice == IF bid THEN roundToTickBid(level.Price, tick)
                             ELSE roundToTickAsk(level.Price, tick)
             key == String(roundedPrice)
             entry == IF key \in DOMAIN tickMap
                      THEN [Price |-> roundedPrice,
                            Quantity |-> tickMap[key].Quantity + level.Quantity]
                      ELSE [Price |-> roundedPrice, Quantity |-> level.Quantity]
         IN fillTickMap(MapPut(tickMap, key, entry), levels, i + 1, tick, bid)

(* the slices a range over the map m can produce: its values in any order *)
MapValues(m) ==
    LET n == Cardinality(DOMAIN m)
    IN {s \in [1 .. n -> {m[k] : k \in DOMAIN m}] :
           \A k \in DOMAIN m : \E i \in 1 .. n : s[i] = m[k]}

(* the slices AggregateBids can return for levels *)
AggregateBids(levels, tick) ==
    IF Len(levels) = 0 THEN {levels}
    ELSE MapValues(fillTickMap(EmptyMap, levels, 1, tick, TRUE))

(* the slices AggregateAsks can return for levels *)
AggregateAsks(levels, tick) ==
    IF Len(levels) = 0 THEN {levels}
    ELSE MapValues(fillTickMap(EmptyMap, levels, 1, tick, FALSE))

NewAggregator ==
    [tick |-> Tick1, pc |-> "idle", side |-> "none",
     input |-> <<>>, output |-> <<>>, again |-> <<>>, requested |-> Tick1,
     bidsMap |-> EmptyMap, asksMap |-> EmptyMap, asksAtBids |-> EmptyMap,
     msg |-> [Bids |-> <<>>, Asks |-> <<>>]]

(* FilterLevels.  bestAsk.Mul(2.0) and bestAsk.Mul(0.2) are exact decimal   *)
(* products; they are counted here in tenths of the unit of the prices, as  *)
(* each price is when it is compared with them.                             *)
InTenths(price) == price * 10

(* the band of FilterLevels without its two ends *)
InFilterBand_Strict(price, bestAsk) ==
    LET maxPrice == bestAsk * 20
        minPrice == bestAsk * 2
    IN InTenths(price) < maxPrice /\ InTenths(price) > minPrice

(* level.Price.LessThanOrEqual(maxPrice) &&                                 *)
(* level.Price.GreaterThanOrEqual(minPrice)                                 *)
InFilterBand(price, bestAsk) ==
    LET maxPrice == bestAsk * 20
        minPrice == bestAsk * 2
    IN InTenths(price) <= maxPrice /\ InTenths(price) >= minPrice

(* the loop of FilterLevels over levels, from entry i on *)
RECURSIVE filterFrom(_, _, _, _, _)
filterFrom(levels, bestAsk, isBid, i, filtered) ==
    IF i > Len(levels) THEN filtered
    ELSE filterFrom(levels, bestAsk, isBid, i + 1,
            IF isBid
            THEN IF InFilterBand(levels[i].Price, bestAsk)
                 THEN Append(filtered, levels[i]) ELSE filtered
            ELSE Append(filtered, levels[i]))

FilterLevels(levels, bestAsk, isBid) ==
    IF IsZero(bestAsk) THEN levels
    ELSE filterFrom(levels, bestAsk, isBid, 1, <<>>)

(* a call of FilterLevels on the input drawn at the start *)
NewFilterCall(levels, bestAsk, isBid) ==
    [pc |-> "call", levels |-> levels, bestAsk |-> bestAsk, isBid |-> isBid,
     result |-> <<>>]

FilterLevelsReturns ==
    /\ agg.pc = "call"
    /\ agg' = [agg EXCEPT !.pc = "returned",
                           !.result = FilterLevels(agg.levels, agg.bestAsk, agg.isBid)]
    /\ UNCHANGED <<ob, wpc, rpc, fetched, registry, mode, emitted, delivered,
                    lastOp, lastUpd, appliedNow, srv, orch, adp>>

(* sort.Slice by price, descending for bids and ascending for asks; the    *)
(* prices of an aggregated slice are distinct                               *)
RECURSIVE sortSlice(_, _)
sortSlice(S, desc) ==
    IF S = {} THEN <<>>
    ELSE LET x == CHOOSE x \in S : \A y \in S :
                      IF desc THEN y.Price <= x.Price ELSE x.Price <= y.Price
         IN <<x>> \o sortSlice(S \ {x}, desc)

(* the cumulative field carrying the entry's own quantity *)
RECURSIVE wireLevels_NoSum(_, _, _)
wireLevels_NoSum(levels, i, cumulative) ==
    IF i > Len(levels) THEN <<>>
    ELSE <<[Price |-> String(levels[i].Price),
            Quantity |-> String(levels[i].Quantity),
            Cumulative |-> String(levels[i].Quantity)]>>
             \o wireLevels_NoSum(levels, i + 1, cumulative)

(* the wire levels of a sorted slice from entry i on; cumulative is the    *)
(* running sum before entry i                                              *)
RECURSIVE wireLevels(_, _, _)
wireLevels(levels, i, cumulative) ==
    IF i > Len(levels) THEN <<>>
    ELSE LET c == cumulative + levels[i].Quantity
         IN <<[Price |-> String(levels[i].Price),
               Quantity |-> String(levels[i].Quantity),
               Cumulative |-> String(c)]>> \o wireLevels(levels, i + 1, c)

(* the message built from the two copies under the tick read in the        *)
(* tickMux section                                                         *)
buildOrderbookMessage(bidLevels, askLevels, aggregatedBids, aggregatedAsks) ==
    [Bids |-> wireLevels(sortSlice({aggregatedBids[i] : i \in DOMAIN aggregatedBids}, TRUE), 1, 0),
     Asks |-> wireLevels(sortSlice({aggregatedAsks[i] : i \in DOMAIN aggregatedAsks}, FALSE), 1, 0)]

(* the tick levels a client asks for in set_tick: the available ones, and  *)
(* two that are not                                                        *)
TickRequests == AvailableTickLevels \cup {0, 7}

(* the lists of levels the aggregator is called with under tick: prices    *)
(* just below, at and just above a multiple of the tick, and the bids and  *)
(* asks of the worked example (50001, 50005, 50009 under tick 10)          *)
AggPrices(tick) == {tick - 1, tick, tick + 1, 2 * tick - 1, 2 * tick + 1}

ExampleBids == <<Level(1000020, 20), Level(1000100, 30), Level(1000180, 40)>>

ExampleAsks == <<Level(1000020, 20), Level(1000180, 40)>>

AggInputs(tick) ==
    SeqsUpTo({Level(p, q) : p \in AggPrices(tick), q \in {1, 2}}, MaxAggLevels)
        \cup {ExampleBids, ExampleAsks}

(* the snapshots and updates of SpecPublish: at most one level a side *)
PubSnapshots ==
    LET S == SeqsUpTo({Level(DecStr(p, 0), DecStr(1, 0)) : p \in 1 .. 2 * MaxPrice}, 1)
    IN {Snapshot(0, bs, as) : bs \in S, as \in S}

PubUpdates ==
    LET S == SeqsUpTo({Level(DecStr(p, 0), DecStr(q, 0)) : p \in 1 .. 2 * MaxPrice, q \in 0 .. 1}, 1)
    IN {DepthUpdate(0, 0, 0, bs, as) : bs \in S, as \in S}

---------------------------------------------------------------------------
(* The server: set_tick, the aggregator's entry points, and the publish    *)
(* loop's buildOrderbookMessage, one action per locked section             *)

ServerLeaves ==
    UNCHANGED <<ob, wpc, rpc, fetched, registry, mode, emitted, delivered,
                lastOp, lastUpd, appliedNow, adp>>

AggLeaves == ServerLeaves /\ UNCHANGED <<srv, orch>>

SrvLeaves == ServerLeaves /\ UNCHANGED <<agg, orch>>

(* every requested tick is taken *)
setTickLevel_NoValidation(trace) ==
    /\ agg.pc = "idle"
    /\ \E tick \in TickRequests :
         agg' = [agg EXCEPT !.tick = tick,
                            !.requested = IF trace THEN tick ELSE @]
    /\ AggLeaves

(* setTickLevel(tick): a tick that is not available is refused; trace says *)
(* whether requested records the tick asked for                            *)
setTickLevel(trace) ==
    /\ agg.pc = "idle"
    /\ \E tick \in TickRequests :
         agg' = IF tick \in AvailableTickLevels
                THEN [agg EXCEPT !.tick = tick,
                                 !.requested = IF trace THEN tick ELSE @]
                ELSE [agg EXCEPT !.requested = IF trace THEN tick ELSE @]
    /\ AggLeaves

(* a call of AggregateBids and what it returns *)
CallAggregateBids ==
    /\ agg.pc = "idle"
    /\ \E levels \in AggInputs(agg.tick) :
         \E out \in AggregateBids(levels, agg.tick) :
            agg' = [agg EXCEPT !.pc = "returned", !.side = "bid",
                               !.input = levels, !.output = out]
    /\ AggLeaves

(* a call of AggregateAsks and what it returns *)
CallAggregateAsks ==
    /\ agg.pc = "idle"
    /\ \E levels \in AggInputs(agg.tick) :
         \E out \in AggregateAsks(levels, agg.tick) :
            agg' = [agg EXCEPT !.pc = "returned", !.side = "ask",
                               !.input = levels, !.output = out]
    /\ AggLeaves

(* the slice returned is aggregated once more, with the same entry point  *)
(* under the same tick                                                     *)
CallAggregateAgain ==
    /\ agg.pc = "returned"
    /\ \E out \in (IF agg.side = "bid" THEN AggregateBids(agg.output, agg.tick)
                    ELSE AggregateAsks(agg.output, agg.tick)) :
         agg' = [agg EXCEPT !.pc = "again", !.again = out]
    /\ AggLeaves

(* the caller drops the result *)
AggregateReturn ==
    /\ agg.pc \in {"returned", "again"}
    /\ agg' = [agg EXCEPT !.pc = "idle", !.side = "none",
                          !.input = <<>>, !.output = <<>>, !.again = <<>>]
    /\ AggLeaves

(* startDataPush finds the registered book initialized and                 *)
(* buildOrderbookMessage takes its copy of the bids: ob.GetBids();         *)
(* asksAtBids remembers the asks the book held at that moment              *)
PublishGetBids ==
    /\ agg.pc = "idle"
    /\ Tag \in registry
    /\ ob.initialized
    /\ agg' = [agg EXCEPT !.pc = "gotBids", !.bidsMap = ob.bids,
                          !.asksMap = EmptyMap, !.asksAtBids = ob.asks,
                          !.msg = [Bids |-> <<>>, Asks |-> <<>>]]
    /\ AggLeaves

(* ob.GetAsks() and the rest of buildOrderbookMessage, which reads no      *)
(* more of the book                                                        *)
PublishGetAsks ==
    /\ agg.pc = "gotBids"
    /\ \E bidLevels \in MapValues(agg.bidsMap), askLevels \in MapValues(ob.asks) :
         \E aggregatedBids \in AggregateBids(bidLevels, agg.tick),
            aggregatedAsks \in AggregateAsks(askLevels, agg.tick) :
            agg' = [agg EXCEPT !.pc = "built", !.asksMap = ob.asks,
                               !.msg = buildOrderbookMessage(bidLevels, askLevels,
                                           aggregatedBids, aggregatedAsks)]
    /\ AggLeaves

(* the message goes to the broadcast queue *)
PublishSend ==
    /\ agg.pc = "built"
    /\ agg' = [agg EXCEPT !.pc = "idle", !.bidsMap = EmptyMap,
                          !.asksMap = EmptyMap, !.asksAtBids = EmptyMap]
    /\ AggLeaves

---------------------------------------------------------------------------
(* The server's goroutines: one handleWebSocket per client, the publish    *)
(* loop startDataPush and the broadcast loop broadcastMessages.  They      *)
(* share the client set under clientsMux (a sync.RWMutex) and the          *)
(* broadcast channel.  srv.readers holds the goroutines inside a read      *)
(* section; a write section has no blocking call in it and is one step.    *)

Clients == 1 .. MaxClients

(* NewServer, and Start with no client connected yet *)
NewServer ==
    [clients |-> {},
     sock |-> [c \in Clients |-> "none"],
     hpc |-> [c \in Clients |-> "none"],
     readers |-> {},
     broadcast |-> 0,
     ppc |-> "tick", atStart |-> {}, yielded |-> {}, cur |-> "none",
     sent |-> <<>>, order |-> <<>>, lastTick |-> "none", ticks |-> 0,
     bpc |-> "recv", todo |-> {}, failed |-> 0]

(* the goroutines that have called clientsMux.Lock() and not returned *)
PendingWriters ==
    {<<"handler", c>> : c \in {d \in Clients : srv.hpc[d] \in {"add", "remove"}}}
        \cup (IF srv.bpc = "lock" THEN {<<"broadcast", srv.failed>>} ELSE {})

(* RLock returns when no writer holds or waits for the lock *)
CanRLock == PendingWriters = {}

(* Lock returns when no reader and no writer holds the lock *)
CanLock == srv.readers = {}

(* a client connects: Upgrade succeeds and handleWebSocket calls Lock *)
ClientConnects ==
    \E c \in Clients :
        /\ srv.hpc[c] = "none"
        /\ srv' = [srv EXCEPT !.hpc[c] = "add", !.sock[c] = "open"]
        /\ SrvLeaves

(* the peer of a client goes away: reads and writes on its socket fail *)
ClientFails ==
    \E c \in Clients :
        /\ srv.sock[c] = "open"
        /\ srv' = [srv EXCEPT !.sock[c] = "failing"]
        /\ SrvLeaves

(* conn.ReadMessage() of handleWebSocket returns an error: the loop breaks *)
(* and the deferred function calls Lock                                    *)
HandlerReadFails ==
    \E c \in Clients :
        /\ srv.hpc[c] = "read"
        /\ srv.sock[c] \in {"failing", "closed"}
        /\ srv' = [srv EXCEPT !.hpc[c] = "remove"]
        /\ SrvLeaves

(* clientsMux.Lock() returns to one of the goroutines waiting in it, which *)
(* runs its write section and unlocks: handleWebSocket adds its client, or *)
(* its deferred function deletes it and closes the socket, or              *)
(* broadcastMessages deletes the client whose write failed                 *)
AcquireLock ==
    /\ CanLock
    /\ \E g \in PendingWriters :
         LET c == g[2]
         IN srv' = IF g[1] = "broadcast"
                   THEN [srv EXCEPT !.clients = @ \ {c}, !.bpc = "write"]
                   ELSE IF srv.hpc[c] = "add"
                   THEN [srv EXCEPT !.clients = @ \cup {c}, !.hpc[c] = "read"]
                   ELSE [srv EXCEPT !.clients = @ \ {c}, !.hpc[c] = "done",
                                    !.sock[c] = "closed"]
    /\ SrvLeaves

(* the range goes on although no client is registered *)
PublishTick_AlwaysRanges(count) ==
    /\ srv.ppc = "tick"
    /\ CanRLock
    /\ count => srv.ticks < MaxTicks
    /\ srv' = [srv EXCEPT !.ppc = "range", !.atStart = registry, !.yielded = {},
                          !.cur = "none", !.sent = <<>>, !.order = <<>>,
                          !.lastTick = "ranged",
                          !.ticks = IF count THEN @ + 1 ELSE @]
    /\ SrvLeaves

(* a tick of startDataPush: the read section that counts the clients; with *)
(* none the tick is skipped, else the range over s.orderbooks starts.      *)
(* atStart is the registry at that moment, yielded the exchanges the range *)
(* has produced, sent the messages of this tick put into the channel,      *)
(* order the exchanges found initialized, lastTick what the last tick did; *)
(* with count the ticks are counted and at most MaxTicks of them happen    *)
PublishTick(count) ==
    /\ srv.ppc = "tick"
    /\ CanRLock
    /\ count => srv.ticks < MaxTicks
    /\ srv' = IF srv.clients # {}
              THEN [srv EXCEPT !.ppc = "range", !.atStart = registry, !.yielded = {},
                               !.cur = "none", !.sent = <<>>, !.order = <<>>,
                               !.lastTick = "ranged",
                               !.ticks = IF count THEN @ + 1 ELSE @]
              ELSE [srv EXCEPT !.atStart = {}, !.yielded = {}, !.cur = "none",
                               !.sent = <<>>, !.order = <<>>, !.lastTick = "skipped",
                               !.ticks = IF count THEN @ + 1 ELSE @]
    /\ SrvLeaves

(* the range produces the next exchange: one that is in the map and has    *)
(* not been produced in this range (an entry added during the range may or *)
(* may not be produced); ob.IsInitialized() decides whether it is skipped  *)
PublishNext ==
    /\ srv.ppc = "range"
    /\ \E v \in registry \ srv.yielded :
         srv' = IF orch.ready[v]
                THEN [srv EXCEPT !.yielded = @ \cup {v}, !.ppc = "sendOrderbook",
                                 !.cur = v, !.order = Append(@, v)]
                ELSE [srv EXCEPT !.yielded = @ \cup {v}]
    /\ SrvLeaves

(* s.broadcast <- orderbookMsg: the send returns when the channel has room *)
PublishSendOrderbook ==
    /\ srv.ppc = "sendOrderbook"
    /\ srv.broadcast < BroadcastCapacity
    /\ srv' = [srv EXCEPT !.broadcast = @ + 1, !.ppc = "sendStats",
                          !.sent = Append(@, <<srv.cur, "orderbook">>)]
    /\ SrvLeaves

(* s.broadcast <- statsMsg; the range goes on *)
PublishSendStats ==
    /\ srv.ppc = "sendStats"
    /\ srv.broadcast < BroadcastCapacity
    /\ srv' = [srv EXCEPT !.broadcast = @ + 1, !.ppc = "range", !.cur = "none",
                          !.sent = Append(@, <<srv.cur, "stats">>)]
    /\ SrvLeaves

(* the range is over: every entry that has been in the map since the range *)
(* started has been produced; the loop waits for the next tick             *)
PublishRangeEnds ==
    /\ srv.ppc = "range"
    /\ (srv.atStart \cap registry) \subseteq srv.yielded
    /\ srv' = [srv EXCEPT !.ppc = "tick"]
    /\ SrvLeaves

(* broadcastMessages receives the next message *)
BroadcastReceive ==
    /\ srv.bpc = "recv"
    /\ srv.broadcast > 0
    /\ srv' = [srv EXCEPT !.broadcast = @ - 1, !.bpc = "rlock"]
    /\ SrvLeaves

(* clientsMux.RLock() of broadcastMessages returns; the range over the     *)
(* client set starts                                                       *)
BroadcastRLock ==
    /\ srv.bpc = "rlock"
    /\ CanRLock
    /\ srv' = [srv EXCEPT !.readers = @ \cup {"broadcast"}, !.bpc = "write",
                          !.todo = srv.clients]
    /\ SrvLeaves

(* client.WriteJSON(msg) for the next client of the range: it succeeds on  *)
(* an open socket; on an error the socket is closed and Lock is called,    *)
(* inside the read section                                                 *)
BroadcastWrite ==
    /\ srv.bpc = "write"
    /\ \E c \in srv.todo \cap srv.clients :
         srv' = IF srv.sock[c] = "open"
                THEN [srv EXCEPT !.todo = @ \ {c}]
                ELSE [srv EXCEPT !.todo = @ \ {c}, !.sock[c] = "closed",
                                 !.bpc = "lock", !.failed = c]
    /\ SrvLeaves

(* the range is over: clientsMux.RUnlock() *)
BroadcastRUnlock ==
    /\ srv.bpc = "write"
    /\ srv.todo \cap srv.clients = {}
    /\ srv' = [srv EXCEPT !.readers = @ \ {"broadcast"}, !.bpc = "recv",
                          !.todo = {}, !.failed = 0]
    /\ SrvLeaves

---------------------------------------------------------------------------
(* The orchestrator runMultiExchange, the goroutine it starts per cycle    *)
(* (startExchangesForSymbol), that cycle's workers with their reinit       *)
(* goroutines and its logging goroutine, and the client readers that send  *)
(* change_symbol.  Symbols are numbers: the initial symbol is 0 and the    *)
(* k-th request asks for symbol k.                                         *)

Venues == {Tag, "venue2"}

InitialSymbol == 0

(* a symbol that is neither the old nor the new value of currentSymbol:    *)
(* what a read of the string can give while it is being assigned           *)
TornSymbol == 0 - 1

NewOrchestrator ==
    [opc |-> "spawn", currentSymbol |-> InitialSymbol, newSymbol |-> InitialSymbol,
     cycle |-> 0, done |-> FALSE, exchangesDone |-> FALSE, gpc |-> "none",
     symbolChange |-> <<>>, interrupt |-> 0, signals |-> 0, requests |-> 0,
     wk |-> [v \in Venues |-> "none"], wsym |-> [v \in Venues |-> InitialSymbol],
     wcyc |-> [v \in Venues |-> 0], ready |-> [v \in Venues |-> FALSE], rg |-> [v \in Venues |-> "none"], lg |-> "none",
     bookSymbol |-> [v \in Venues |-> InitialSymbol],
     reader |-> [c \in Clients |-> "read"], want |-> [c \in Clients |-> InitialSymbol],
     taker |-> "none", received |-> {InitialSymbol}, redundant |-> {}]

OrchLeaves ==
    UNCHANGED <<ob, wpc, rpc, fetched, mode, emitted, delivered,
                lastOp, lastUpd, appliedNow, agg, srv, adp>>

(* top of the loop: done and exchangesDone are made and the goroutine that *)
(* will call startExchangesForSymbol is started                            *)
StartCycle ==
    /\ orch.opc = "spawn"
    /\ orch' = [orch EXCEPT !.opc = "select", !.done = FALSE,
                            !.exchangesDone = FALSE, !.gpc = "start"]
    /\ UNCHANGED registry
    /\ OrchLeaves

(* the goroutine evaluates currentSymbol and calls startExchangesForSymbol, *)
(* which starts one worker per venue and the logging goroutine.  The read   *)
(* of currentSymbol is not ordered with the orchestrator's assignment:      *)
(* while that is under way it gives the old value, the new one or a mix     *)
StartExchanges ==
    /\ orch.gpc = "start"
    /\ \E symbol \in (IF orch.opc = "assign"
                      THEN {orch.currentSymbol, orch.newSymbol, TornSymbol}
                      ELSE {orch.currentSymbol}) :
         orch' = [orch EXCEPT !.gpc = "wait",
                              !.wk = [v \in Venues |-> "starting"],
                              !.wsym = [v \in Venues |-> symbol],
                              !.wcyc = [v \in Venues |-> orch.cycle],
                              !.rg = [v \in Venues |-> "none"],
                              !.lg = "running"]
    /\ UNCHANGED registry
    /\ OrchLeaves

(* a worker that fails and puts its book into the map all the same *)
VenueFails_Registers ==
    \E v \in Venues :
        /\ orch.wk[v] = "starting"
        /\ orch' = [orch EXCEPT !.wk[v] = "exited"]
        /\ registry' = registry \cup {v}
        /\ OrchLeaves

(* NewExchange, Connect, GetSnapshot or LoadSnapshot fails: the worker      *)
(* returns                                                                  *)
VenueFails ==
    \E v \in Venues :
        /\ orch.wk[v] = "starting"
        /\ orch' = [orch EXCEPT !.wk[v] = "exited"]
        /\ UNCHANGED registry
        /\ OrchLeaves

(* the worker starts its consumer and its reinit goroutine, processes the   *)
(* buffer, after which its book reports initialized (ready), and puts the   *)
(* book into orderbooksMap                                                  *)
VenueRegisters ==
    \E v \in Venues :
        /\ orch.wk[v] = "starting"
        /\ orch' = [orch EXCEPT !.wk[v] = "waiting", !.rg[v] = "running",
                                !.ready[v] = TRUE,
                                !.bookSymbol[v] = orch.wsym[v]]
        /\ registry' = registry \cup {v}
        /\ OrchLeaves

(* the worker's select: updatesDone (the venue's stream ended), done       *)
(* (closed) or a value from interrupt; then delete(orderbooksMap, name)     *)
VenueStops ==
    \E v \in Venues, why \in {"updatesDone", "done", "interrupt"} :
        /\ orch.wk[v] = "waiting"
        /\ why = "done" => orch.done
        /\ why = "interrupt" => orch.interrupt > 0
        /\ orch' = [orch EXCEPT !.wk[v] = "exited",
                                !.interrupt = IF why = "interrupt" THEN @ - 1 ELSE @,
                                !.taker = IF why = "interrupt" THEN "worker" ELSE @,
                                !.rg[v] = IF why = "updatesDone" /\ @ = "running"
                                          THEN "exited" ELSE @]
        /\ registry' = registry \ {v}
        /\ OrchLeaves

(* CheckAndReinitialize of a registered book finds too many buffered       *)
(* events and clears the initialized flag                                  *)
VenueReinitBegins ==
    \E v \in Venues :
        /\ orch.wk[v] = "waiting"
        /\ orch.ready[v]
        /\ orch' = [orch EXCEPT !.ready[v] = FALSE]
        /\ UNCHANGED registry
        /\ OrchLeaves

(* a later CheckAndReinitialize gets its snapshot and ProcessBufferedEvents *)
(* sets the flag again                                                     *)
VenueReinitEnds ==
    \E v \in Venues :
        /\ orch.wk[v] = "waiting"
        /\ ~orch.ready[v]
        /\ orch' = [orch EXCEPT !.ready[v] = TRUE]
        /\ UNCHANGED registry
        /\ OrchLeaves

(* the range advances while a worker is writing the map, which the worker  *)
(* does under obMutex and the range reads without it: the runtime stops    *)
(* the process (concurrent map iteration and map write)                    *)
PublishRangeFault ==
    /\ srv.ppc = "range"
    /\ \E v \in Venues : orch.wk[v] \in {"starting", "waiting"}
    /\ srv' = [srv EXCEPT !.ppc = "crashed"]
    /\ SrvLeaves

(* the select of a reinit goroutine returns on done or on a value from     *)
(* interrupt                                                               *)
ReinitStops ==
    \E v \in Venues, why \in {"done", "interrupt"} :
        /\ orch.rg[v] = "running"
        /\ why = "done" => orch.done
        /\ why = "interrupt" => orch.interrupt > 0
        /\ orch' = [orch EXCEPT !.rg[v] = "exited",
                                !.interrupt = IF why = "interrupt" THEN @ - 1 ELSE @,
                                !.taker = IF why = "interrupt" THEN "reinit" ELSE @]
        /\ UNCHANGED registry
        /\ OrchLeaves

(* the select of the logging goroutine returns on done or on a value from  *)
(* interrupt                                                               *)
LoggerStops ==
    \E why \in {"done", "interrupt"} :
        /\ orch.lg = "running"
        /\ why = "done" => orch.done
        /\ why = "interrupt" => orch.interrupt > 0
        /\ orch' = [orch EXCEPT !.lg = "exited",
                                !.interrupt = IF why = "interrupt" THEN @ - 1 ELSE @,
                                !.taker = IF why = "interrupt" THEN "logger" ELSE @]
        /\ UNCHANGED registry
        /\ OrchLeaves

(* wg.Wait() returns: every worker has returned; close(exchangesDone)      *)
ExchangesDone ==
    /\ orch.gpc = "wait"
    /\ \A v \in Venues : orch.wk[v] = "exited"
    /\ orch' = [orch EXCEPT !.gpc = "done", !.exchangesDone = TRUE]
    /\ UNCHANGED registry
    /\ OrchLeaves

(* a client's reader gets a change_symbol message and reaches the send on  *)
(* symbolChange; redundant collects the requests that arrive while another *)
(* is pending in the channel or while the orchestrator is tearing down     *)
ClientAsksSymbol ==
    \E c \in Clients :
        /\ orch.reader[c] = "read"
        /\ orch.requests < MaxRequests
        /\ orch' = [orch EXCEPT !.reader[c] = "send", !.want[c] = orch.requests + 1,
                                !.requests = @ + 1,
                                !.redundant = IF Len(orch.symbolChange) > 0
                                                 \/ orch.opc \in {"assign", "wait"}
                                              THEN @ \cup {orch.requests + 1} ELSE @]
        /\ UNCHANGED registry
        /\ OrchLeaves

(* s.symbolChange <- msg.Symbol returns when the channel has room; the     *)
(* reader goes back to ReadMessage                                         *)
ClientSendsSymbol ==
    \E c \in Clients :
        /\ orch.reader[c] = "send"
        /\ Len(orch.symbolChange) < 1
        /\ orch' = [orch EXCEPT !.reader[c] = "read",
                                !.symbolChange = Append(@, orch.want[c])]
        /\ UNCHANGED registry
        /\ OrchLeaves

(* the process gets an interrupt signal: signal.Notify puts it into the    *)
(* channel if there is room                                                *)
SignalArrives ==
    /\ orch.signals < MaxSignals
    /\ orch.opc # "returned"
    /\ orch' = [orch EXCEPT !.signals = @ + 1,
                            !.interrupt = IF @ < 1 THEN @ + 1 ELSE @]
    /\ UNCHANGED registry
    /\ OrchLeaves

(* the orchestrator's select takes newSymbol from symbolChange and starts  *)
(* to assign it to currentSymbol                                           *)
ReceiveSymbolChange ==
    /\ orch.opc = "select"
    /\ Len(orch.symbolChange) > 0
    /\ orch' = [orch EXCEPT !.opc = "assign", !.newSymbol = Head(orch.symbolChange),
                            !.symbolChange = Tail(@),
                            !.received = @ \cup {Head(orch.symbolChange)}]
    /\ UNCHANGED registry
    /\ OrchLeaves

(* the assignment is complete; close(done); the orchestrator waits for     *)
(* exchangesDone                                                           *)
CloseDone ==
    /\ orch.opc = "assign"
    /\ orch' = [orch EXCEPT !.opc = "wait", !.currentSymbol = orch.newSymbol,
                            !.done = TRUE]
    /\ UNCHANGED registry
    /\ OrchLeaves

(* exchangesDone is closed: the map is cleared, and after the sleep the    *)
(* loop starts over                                                        *)
ClearRegistry ==
    /\ orch.opc = "wait"
    /\ orch.exchangesDone
    /\ orch' = [orch EXCEPT !.opc = "spawn", !.cycle = @ + 1]
    /\ registry' = {}
    /\ OrchLeaves

(* the orchestrator's select takes a value from interrupt: close(done)     *)
ReceiveInterrupt ==
    /\ orch.opc = "select"
    /\ orch.interrupt > 0
    /\ orch' = [orch EXCEPT !.opc = "shutdown", !.interrupt = @ - 1,
                            !.taker = "orchestrator", !.done = TRUE]
    /\ UNCHANGED registry
    /\ OrchLeaves

(* exchangesDone is closed: runMultiExchange returns                       *)
OrchestratorReturns ==
    /\ orch.opc = "shutdown"
    /\ orch.exchangesDone
    /\ orch' = [orch EXCEPT !.opc = "returned"]
    /\ UNCHANGED registry
    /\ OrchLeaves

---------------------------------------------------------------------------
(* A venue's adapter (binance SpotExchange: a websocket and readMessages;   *)
(* okx SpotExchange: pollLoop over REST), the updates consumer and the      *)
(* worker that waits for the stream to end and then calls Close.            *)

(* the adapter after Connect, its worker registered and waiting.            *)
(* kind: "ws" or "poll"; conn: the websocket; cancelled: e.ctx; done and    *)
(* updateChan with the number of times each was closed; queued: updates in  *)
(* updateChan; connected: health.Connected; loaded: the Connected value the *)
(* reader read in incrementMessageCount; readFailed: ReadJSON gave an error *)
(* on an open connection; closes: calls of Close that have returned         *)
NewAdapter(kind) ==
    [kind |-> kind, conn |-> IF kind = "ws" THEN "open" ELSE "none",
     cancelled |-> FALSE, done |-> FALSE, doneCloses |-> 0,
     chanClosed |-> FALSE, chanCloses |-> 0, queued |-> 0,
     connected |-> TRUE, loaded |-> TRUE, readFailed |-> FALSE,
     reader |-> "select", consumer |-> "range", worker |-> "waiting",
     closer |-> "idle", closes |-> 0]

AdpLeaves ==
    UNCHANGED <<ob, wpc, rpc, fetched, mode, emitted, delivered,
                lastOp, lastUpd, appliedNow, agg, srv, orch>>

Stopping == adp.cancelled \/ adp.done

(* the select at the top of the reader's loop finds ctx.Done() or done *)
ReaderReturns ==
    /\ adp.reader = "select"
    /\ Stopping
    /\ adp' = [adp EXCEPT !.reader = "deferStatus"]
    /\ UNCHANGED registry
    /\ AdpLeaves

(* readMessages: neither is ready, the default branch calls ReadJSON *)
ReaderReads ==
    /\ adp.kind = "ws"
    /\ adp.reader = "select"
    /\ ~Stopping
    /\ adp' = [adp EXCEPT !.reader = "read"]
    /\ UNCHANGED registry
    /\ AdpLeaves

(* ReadJSON returns a message; incrementMessageCount loads the health *)
ReaderGetsMessage ==
    /\ adp.reader = "read"
    /\ adp.conn = "open"
    /\ adp' = [adp EXCEPT !.reader = "store", !.loaded = adp.connected]
    /\ UNCHANGED registry
    /\ AdpLeaves

(* pollLoop: the ticker fires and poll gets its snapshot, which needs a     *)
(* context that is not cancelled; incrementMessageCount loads the health    *)
PollTick ==
    /\ adp.kind = "poll"
    /\ adp.reader = "select"
    /\ adp' = IF adp.cancelled THEN adp
              ELSE [adp EXCEPT !.reader = "store", !.loaded = adp.connected]
    /\ UNCHANGED registry
    /\ AdpLeaves

(* incrementMessageCount stores the health it loaded, updateLastPing        *)
(* follows, and the select that sends the update: into updateChan if it has *)
(* room, dropped if not; when ctx.Done() or done is ready that case may be  *)
(* taken, on which readMessages returns and poll just ends                  *)
ReaderSends ==
    /\ adp.reader = "store"
    /\ \E taken \in {"send", "stop"} :
         /\ taken = "stop" => Stopping
         /\ taken = "send" => adp.queued < MaxQueued \/ ~Stopping
         /\ adp' = [adp EXCEPT
                      !.connected = adp.loaded,
                      !.queued = IF taken = "send" /\ @ < MaxQueued THEN @ + 1 ELSE @,
                      !.reader = IF taken = "stop" /\ adp.kind = "ws"
                                 THEN "deferStatus" ELSE "select"]
    /\ UNCHANGED registry
    /\ AdpLeaves

(* the transport fails under ReadJSON *)
ReaderReadFails ==
    /\ adp.reader = "read"
    /\ adp.conn = "open"
    /\ adp' = [adp EXCEPT !.reader = "deferStatus", !.conn = "failed",
                          !.readFailed = TRUE]
    /\ UNCHANGED registry
    /\ AdpLeaves

(* ReadJSON on a connection that Close has closed returns an error *)
ReaderReadOnClosed ==
    /\ adp.reader = "read"
    /\ adp.conn = "closed"
    /\ adp' = [adp EXCEPT !.reader = "deferStatus"]
    /\ UNCHANGED registry
    /\ AdpLeaves

(* a reader that returns and leaves health.Connected as it is *)
ReaderDeferStatus_Skipped ==
    /\ adp.reader = "deferStatus"
    /\ adp' = [adp EXCEPT !.reader = "deferClose"]
    /\ UNCHANGED registry
    /\ AdpLeaves

(* defer e.updateConnectionStatus(false) *)
ReaderDeferStatus ==
    /\ adp.reader = "deferStatus"
    /\ adp' = [adp EXCEPT !.reader = "deferClose", !.connected = FALSE]
    /\ UNCHANGED registry
    /\ AdpLeaves

(* defer close(e.updateChan) *)
ReaderDeferClose ==
    /\ adp.reader = "deferClose"
    /\ adp' = [adp EXCEPT !.reader = "returned", !.chanClosed = TRUE,
                          !.chanCloses = @ + 1]
    /\ UNCHANGED registry
    /\ AdpLeaves

(* for update := range ex.Updates(): the next update is handled *)
ConsumerTakes ==
    /\ adp.consumer = "range"
    /\ adp.queued > 0
    /\ adp' = [adp EXCEPT !.queued = @ - 1]
    /\ UNCHANGED registry
    /\ AdpLeaves

(* the range ends on the closed, drained channel: close(updatesDone) *)
ConsumerEnds ==
    /\ adp.consumer = "range"
    /\ adp.queued = 0
    /\ adp.chanClosed
    /\ adp' = [adp EXCEPT !.consumer = "ended"]
    /\ UNCHANGED registry
    /\ AdpLeaves

(* the worker's select returns, on updatesDone or because the cycle is      *)
(* being stopped, and the worker deletes the venue from orderbooksMap       *)
WorkerRemoves(why) ==
    /\ adp.worker = "waiting"
    /\ why = "updatesDone" => adp.consumer = "ended"
    /\ adp' = [adp EXCEPT !.worker = "removed"]
    /\ registry' = registry \ {Tag}
    /\ AdpLeaves

(* Close is called: by the worker's defer when it returns, and again after  *)
(* that call has returned; e.cancel()                                       *)
CloseCancel ==
    /\ adp.worker = "removed"
    /\ adp.closer = "idle"
    /\ adp.closes < MaxCloses
    /\ adp' = [adp EXCEPT !.closer = "done", !.cancelled = TRUE]
    /\ UNCHANGED registry
    /\ AdpLeaves

(* close(e.done) without looking whether it is closed already *)
CloseSignal_Unguarded ==
    /\ adp.closer = "done"
    /\ adp' = [adp EXCEPT !.closer = "status", !.done = TRUE, !.doneCloses = @ + 1]
    /\ UNCHANGED registry
    /\ AdpLeaves

(* select { case <-e.done: default: close(e.done) }; the websocket adapter  *)
(* then writes its close message and waits a second                        *)
CloseSignal ==
    /\ adp.closer = "done"
    /\ adp' = [adp EXCEPT !.closer = "status", !.done = TRUE,
                          !.doneCloses = IF adp.done THEN @ ELSE @ + 1]
    /\ UNCHANGED registry
    /\ AdpLeaves

(* e.updateConnectionStatus(false); the polling adapter's Close returns *)
CloseStatus ==
    /\ adp.closer = "status"
    /\ adp' = [adp EXCEPT !.connected = FALSE,
                          !.closer = IF adp.kind = "ws" THEN "conn" ELSE "idle",
                          !.closes = IF adp.kind = "ws" THEN @ ELSE @ + 1]
    /\ UNCHANGED registry
    /\ AdpLeaves

(* return e.wsConn.Close() *)
CloseConn ==
    /\ adp.closer = "conn"
    /\ adp' = [adp EXCEPT !.conn = "closed", !.closer = "idle", !.closes = @ + 1]
    /\ UNCHANGED registry
    /\ AdpLeaves

---------------------------------------------------------------------------
(* The adapters that take their snapshot from the stream: bybit, kraken and *)
(* coinbase ("flag": snapshotReceived, GetSnapshot looks every 100 ms) and  *)
(* bingx ("signal": hasSnapshot, GetSnapshot waits on snapshotReady).       *)

(* snapshot: the stored snapshot, by the sequence number of its message,    *)
(* 0 for nil; stored: snapshotReceived or hasSnapshot; seq: the messages    *)
(* the venue has sent; first and latest: the first and the latest snapshot  *)
(* message of the session; caller, elapsed: a GetSnapshot call and the time *)
(* it has waited; results: what the calls so far returned, 0 for an error   *)
NewStreamAdapter(kind) ==
    [kind |-> kind, snapshot |-> 0, stored |-> FALSE, seq |-> 0,
     first |-> 0, latest |-> 0, caller |-> "idle", elapsed |-> 0,
     results |-> <<>>]

(* a reader that stores every snapshot message *)
ReaderSnapshotMessage_Overwrites ==
    /\ adp.seq < MaxMessages
    /\ adp' = [adp EXCEPT !.seq = @ + 1, !.snapshot = adp.seq + 1, !.stored = TRUE,
                          !.first = IF @ = 0 THEN adp.seq + 1 ELSE @,
                          !.latest = adp.seq + 1]
    /\ UNCHANGED registry
    /\ AdpLeaves

(* the reader gets a snapshot message: stored unless one is stored already *)
ReaderSnapshotMessage ==
    /\ adp.seq < MaxMessages
    /\ adp' = [adp EXCEPT !.seq = @ + 1,
                          !.snapshot = IF adp.stored THEN @ ELSE adp.seq + 1,
                          !.stored = TRUE,
                          !.first = IF @ = 0 THEN adp.seq + 1 ELSE @,
                          !.latest = adp.seq + 1]
    /\ UNCHANGED registry
    /\ AdpLeaves

(* the reader gets an incremental message *)
ReaderDeltaMessage ==
    /\ adp.seq < MaxMessages
    /\ adp' = [adp EXCEPT !.seq = @ + 1]
    /\ UNCHANGED registry
    /\ AdpLeaves

(* GetSnapshot is called: by the worker, later by CheckAndReinitialize *)
GetSnapshotCalled ==
    /\ adp.caller = "idle"
    /\ Len(adp.results) < MaxCalls
    /\ adp' = [adp EXCEPT !.caller = "waiting", !.elapsed = 0]
    /\ UNCHANGED registry
    /\ AdpLeaves

(* the call finds no snapshot and time passes *)
GetSnapshotWaits ==
    /\ adp.caller = "waiting"
    /\ adp.snapshot = 0
    /\ adp.elapsed < SnapshotTimeout
    /\ adp' = [adp EXCEPT !.elapsed = @ + 1]
    /\ UNCHANGED registry
    /\ AdpLeaves

(* the call returns the stored snapshot: "flag" in the default branch of    *)
(* its select, taken while the timer has not fired; "signal" by the case    *)
(* of snapshotReady                                                         *)
GetSnapshotReturns ==
    /\ adp.caller = "waiting"
    /\ adp.snapshot # 0
    /\ adp.kind = "flag" => adp.elapsed < SnapshotTimeout
    /\ adp' = [adp EXCEPT !.caller = "idle", !.results = Append(@, adp.snapshot)]
    /\ UNCHANGED registry
    /\ AdpLeaves

(* the timer has fired: the call returns an error *)
GetSnapshotTimesOut ==
    /\ adp.caller = "waiting"
    /\ adp.elapsed = SnapshotTimeout
    /\ adp' = [adp EXCEPT !.caller = "idle", !.results = Append(@, 0)]
    /\ UNCHANGED registry
    /\ AdpLeaves

---------------------------------------------------------------------------
(* The update channel of an adapter: the venue messages are numbered 1, 2,  *)
(* ... in the order the reader reads them; pending is the converted update  *)
(* the reader holds at its select, queue is updateChan (its capacity is     *)
(* MaxQueued here), seen is what the engine's consumer has received, and    *)
(* dropped and lost are the updates discarded on a full channel and at a    *)
(* stop.                                                                    *)
NewChannelAdapter ==
    [kind |-> "chan", next |-> 1, pending |-> 0, queue |-> <<>>,
     seen |-> <<>>, dropped |-> {}, lost |-> {}, cancelled |-> FALSE,
     reader |-> "select"]

(* a send that waits for room when updateChan is full *)
UpdateChanSend_Blocks ==
    /\ adp.reader = "store"
    /\ \E taken \in {"send", "stop"} :
         /\ taken = "stop" => adp.cancelled
         /\ taken = "send" => Len(adp.queue) < MaxQueued
         /\ adp' = IF taken = "stop"
                    THEN [adp EXCEPT !.lost = @ \cup {adp.pending},
                                     !.pending = 0, !.reader = "returned"]
                    ELSE [adp EXCEPT !.queue = Append(@, adp.pending),
                                     !.pending = 0, !.reader = "select"]
    /\ UNCHANGED registry
    /\ AdpLeaves

(* readMessages: the select at the top of the loop finds ctx.Done() or done *)
UpdateChanReaderReturns ==
    /\ adp.reader = "select"
    /\ adp.cancelled
    /\ adp' = [adp EXCEPT !.reader = "returned"]
    /\ UNCHANGED registry
    /\ AdpLeaves

(* readMessages: ReadJSON returns the next venue message and                *)
(* convertDepthUpdate converts it                                           *)
UpdateChanRead ==
    /\ adp.reader = "select"
    /\ ~adp.cancelled
    /\ adp.next <= MaxMessages
    /\ adp' = [adp EXCEPT !.pending = adp.next, !.next = @ + 1,
                           !.reader = "store"]
    /\ UNCHANGED registry
    /\ AdpLeaves

(* the select that sends the update: into updateChan if it has room; the    *)
(* default branch, which discards it, if updateChan is full and neither     *)
(* ctx.Done() nor done is ready; when one of those is ready that case may   *)
(* be taken, and readMessages returns                                       *)
UpdateChanSend ==
    /\ adp.reader = "store"
    /\ \E taken \in {"send", "stop"} :
         /\ taken = "stop" => adp.cancelled
         /\ taken = "send" => Len(adp.queue) < MaxQueued \/ ~adp.cancelled
         /\ adp' = IF taken = "stop"
                    THEN [adp EXCEPT !.lost = @ \cup {adp.pending},
                                     !.pending = 0, !.reader = "returned"]
                    ELSE IF Len(adp.queue) < MaxQueued
                    THEN [adp EXCEPT !.queue = Append(@, adp.pending),
                                     !.pending = 0, !.reader = "select"]
                    ELSE [adp EXCEPT !.dropped = @ \cup {adp.pending},
                                     !.pending = 0, !.reader = "select"]
    /\ UNCHANGED registry
    /\ AdpLeaves

(* the worker's consumer: for update := range ex.Updates() *)
UpdateChanReceive ==
    /\ Len(adp.queue) > 0
    /\ adp' = [adp EXCEPT !.seen = Append(@, Head(adp.queue)),
                           !.queue = Tail(@)]
    /\ UNCHANGED registry
    /\ AdpLeaves

(* the context is cancelled or done is closed *)
UpdateChanCancel ==
    /\ ~adp.cancelled
    /\ adp' = [adp EXCEPT !.cancelled = TRUE]
    /\ UNCHANGED registry
    /\ AdpLeaves

---------------------------------------------------------------------------
(* Specifications *)

Init ==
    /\ ob = New
    /\ wpc = "start"
    /\ rpc = "idle"
    /\ fetched = Snapshot(0, <<>>, <<>>)
    /\ registry = {}
    /\ mode \in {"ids", "zero"}
    /\ emitted = 0
    /\ delivered = 0
    /\ lastOp = "New"
    /\ lastUpd = NoUpdate
    /\ appliedNow = <<>>
    /\ agg = NewAggregator
    /\ srv = NewServer
    /\ orch = NewOrchestrator
    /\ adp = NewAdapter("ws")

Next ==
    \/ WorkerLoadSnapshot(SeqSnapshots)
    \/ Consume(SeqUpdates, MaxDelivered, MaxBuffer, TRUE)
    \/ WorkerProcessBufferedEvents

Spec == Init /\ [][Next]_vars

(* SpecSynth: a venue whose adapter makes up the ids of its updates *)
InitSynth ==
    /\ ob = New
    /\ wpc = "start"
    /\ rpc = "idle"
    /\ fetched = Snapshot(0, <<>>, <<>>)
    /\ registry = {}
    /\ mode \in {"zero", "time"}
    /\ emitted = 0
    /\ delivered = 0
    /\ lastOp = "New"
    /\ lastUpd = NoUpdate
    /\ appliedNow = <<>>
    /\ agg = NewAggregator
    /\ srv = NewServer
    /\ orch = NewOrchestrator
    /\ adp = NewAdapter("ws")

NextSynth ==
    \/ WorkerLoadSnapshot(SeqSnapshots)
    \/ Consume(SynthUpdates, MaxDelivered, MaxBuffer, TRUE)
    \/ WorkerProcessBufferedEvents

SpecSynth == InitSynth /\ [][NextSynth]_vars

InitBook == Init /\ mode = "zero"

NextBook ==
    \/ WorkerLoadSnapshot(BookSnapshots)
    \/ Consume(BookUpdates, MaxBookDelivered, 0, FALSE)
    \/ WorkerProcessBufferedEvents

SpecBook == InitBook /\ [][NextBook]_vars

InitGap == Init /\ mode = "ids"

NextGap ==
    \/ WorkerLoadSnapshot(GapSnapshots)
    \/ ConsumeGap
    \/ WorkerProcessBufferedEvents
    \/ WorkerRegister
    \/ WorkerShutdown
    \/ CheckAndReinitialize
    \/ ReinitFlip
    \/ ReinitGetSnapshot(GapSnapshots)
    \/ ReinitGetSnapshotFails
    \/ ReinitLoadSnapshot
    \/ ReinitProcessBufferedEvents

SpecGap == InitGap /\ [][NextGap]_vars

(* SpecLoad: the stream of SpecGap, and a reinitialization whose snapshot   *)
(* lists up to MaxLoadLevels levels on its two sides; a level's price or    *)
(* quantity may be a text that is not a number                              *)
NextLoad ==
    \/ WorkerLoadSnapshot(GapSnapshots)
    \/ ConsumeGap
    \/ WorkerProcessBufferedEvents
    \/ WorkerRegister
    \/ WorkerShutdown
    \/ CheckAndReinitialize
    \/ ReinitFlip
    \/ ReinitGetSnapshot(LoadSnapshots)
    \/ ReinitGetSnapshotFails
    \/ ReinitLoadSnapshot
    \/ ReinitProcessBufferedEvents

SpecLoad == InitGap /\ [][NextLoad]_vars

(* SpecLag: the stream of SpecGap with snapshots that lag behind it *)
NextLag ==
    \/ WorkerLoadSnapshot(LagSnapshots)
    \/ ConsumeGap
    \/ WorkerProcessBufferedEvents
    \/ WorkerRegister
    \/ WorkerShutdown
    \/ CheckAndReinitialize
    \/ ReinitFlip
    \/ ReinitGetSnapshot(LagSnapshots)
    \/ ReinitGetSnapshotFails
    \/ ReinitLoadSnapshot
    \/ ReinitProcessBufferedEvents

SpecLag == InitGap /\ [][NextLag]_vars

(* SpecAgg: the aggregator alone, called with every list of AggInputs *)
NextAgg ==
    \/ setTickLevel(TRUE)
    \/ CallAggregateBids
    \/ CallAggregateAsks
    \/ CallAggregateAgain
    \/ AggregateReturn

SpecAgg == InitBook /\ [][NextAgg]_vars

(* SpecPublish: the publish loop building messages from a book that the    *)
(* consumer keeps updating                                                 *)
NextPublish ==
    \/ WorkerLoadSnapshot(PubSnapshots)
    \/ Consume(PubUpdates, MaxPubDelivered, 0, FALSE)
    \/ WorkerProcessBufferedEvents
    \/ WorkerRegister
    \/ setTickLevel(FALSE)
    \/ PublishGetBids
    \/ PublishGetAsks
    \/ PublishSend

SpecPublish == InitBook /\ [][NextPublish]_vars

(* SpecServer: the server's goroutines and the clients *)
NextServer ==
    \/ ClientConnects
    \/ ClientFails
    \/ HandlerReadFails
    \/ AcquireLock
    \/ PublishTick(FALSE)
    \/ PublishNext
    \/ PublishSendOrderbook
    \/ PublishSendStats
    \/ PublishRangeEnds
    \/ BroadcastReceive
    \/ BroadcastRLock
    \/ BroadcastWrite
    \/ BroadcastRUnlock

(* one exchange is registered and its book reports initialized *)
InitServer ==
    /\ ob = New
    /\ wpc = "start"
    /\ rpc = "idle"
    /\ fetched = Snapshot(0, <<>>, <<>>)
    /\ registry = {Tag}
    /\ mode = "zero"
    /\ emitted = 0
    /\ delivered = 0
    /\ lastOp = "New"
    /\ lastUpd = NoUpdate
    /\ appliedNow = <<>>
    /\ agg = NewAggregator
    /\ srv = NewServer
    /\ orch = [NewOrchestrator EXCEPT !.ready[Tag] = TRUE]
    /\ adp = NewAdapter("ws")

SpecServer == InitServer /\ [][NextServer]_vars

(* SpecPush: the publish loop ranging over the registry while the workers  *)
(* of one cycle register, reinitialize and stop, and clients connect       *)
NextPush ==
    \/ StartCycle
    \/ StartExchanges
    \/ VenueFails
    \/ VenueRegisters
    \/ VenueStops
    \/ VenueReinitBegins
    \/ VenueReinitEnds
    \/ ClientConnects
    \/ AcquireLock
    \/ PublishTick(TRUE)
    \/ PublishNext
    \/ PublishSendOrderbook
    \/ PublishSendStats
    \/ PublishRangeEnds
    \/ PublishRangeFault
    \/ BroadcastReceive
    \/ BroadcastRLock
    \/ BroadcastWrite
    \/ BroadcastRUnlock

SpecPush == InitBook /\ [][NextPush]_vars

(* SpecOrch: the orchestrator, its cycles, the symbol-change requests and  *)
(* the interrupt signal                                                    *)
NextOrch ==
    \/ StartCycle
    \/ StartExchanges
    \/ VenueFails
    \/ VenueRegisters
    \/ VenueStops
    \/ ReinitStops
    \/ LoggerStops
    \/ ExchangesDone
    \/ ClientAsksSymbol
    \/ ClientSendsSymbol
    \/ SignalArrives
    \/ ReceiveSymbolChange
    \/ CloseDone
    \/ ClearRegistry
    \/ ReceiveInterrupt
    \/ OrchestratorReturns

(* every client is connected and its reader is in its loop *)
InitOrch ==
    /\ ob = New
    /\ wpc = "start"
    /\ rpc = "idle"
    /\ fetched = Snapshot(0, <<>>, <<>>)
    /\ registry = {}
    /\ mode = "zero"
    /\ emitted = 0
    /\ delivered = 0
    /\ lastOp = "New"
    /\ lastUpd = NoUpdate
    /\ appliedNow = <<>>
    /\ agg = NewAggregator
    /\ srv = [NewServer EXCEPT !.clients = Clients,
                               !.sock = [c \in Clients |-> "open"],
                               !.hpc = [c \in Clients |-> "read"]]
    /\ orch = NewOrchestrator
    /\ adp = NewAdapter("ws")

SpecOrch == InitOrch /\ [][NextOrch]_vars

(* SpecAdapter: a registered venue of either kind of adapter; its reader,  *)
(* consumer and worker are goroutines the scheduler keeps running, the      *)
(* arrival of messages, the failure of the transport and the stopping of    *)
(* the cycle are up to the environment                                      *)
InitAdapter ==
    /\ ob = New
    /\ wpc = "start"
    /\ rpc = "idle"
    /\ fetched = Snapshot(0, <<>>, <<>>)
    /\ registry = {Tag}
    /\ mode = "zero"
    /\ emitted = 0
    /\ delivered = 0
    /\ lastOp = "New"
    /\ lastUpd = NoUpdate
    /\ appliedNow = <<>>
    /\ agg = NewAggregator
    /\ srv = NewServer
    /\ orch = NewOrchestrator
    /\ \E kind \in {"ws", "poll"} : adp = NewAdapter(kind)

NextAdapter ==
    \/ ReaderReturns
    \/ ReaderReads
    \/ ReaderGetsMessage
    \/ PollTick
    \/ ReaderSends
    \/ ReaderReadFails
    \/ ReaderReadOnClosed
    \/ ReaderDeferStatus
    \/ ReaderDeferClose
    \/ ConsumerTakes
    \/ ConsumerEnds
    \/ \E why \in {"updatesDone", "stopped"} : WorkerRemoves(why)
    \/ CloseCancel
    \/ CloseSignal
    \/ CloseStatus
    \/ CloseConn

SpecAdapter ==
    /\ InitAdapter
    /\ [][NextAdapter]_vars
    /\ WF_vars(ReaderReturns)
    /\ WF_vars(ReaderReads)
    /\ WF_vars(ReaderSends)
    /\ WF_vars(ReaderReadOnClosed)
    /\ WF_vars(ReaderDeferStatus)
    /\ WF_vars(ReaderDeferClose)
    /\ WF_vars(ConsumerTakes)
    /\ WF_vars(ConsumerEnds)
    /\ WF_vars(WorkerRemoves("updatesDone"))
    /\ WF_vars(CloseSignal)
    /\ WF_vars(CloseStatus)
    /\ WF_vars(CloseConn)

(* SpecSnapshot: one session of an adapter that takes its snapshot from    *)
(* the stream, and the GetSnapshot calls made on it                        *)
InitSnapshot ==
    /\ ob = New
    /\ wpc = "start"
    /\ rpc = "idle"
    /\ fetched = Snapshot(0, <<>>, <<>>)
    /\ registry = {}
    /\ mode = "ids"
    /\ emitted = 0
    /\ delivered = 0
    /\ lastOp = "New"
    /\ lastUpd = NoUpdate
    /\ appliedNow = <<>>
    /\ agg = NewAggregator
    /\ srv = NewServer
    /\ orch = NewOrchestrator
    /\ \E kind \in {"flag", "signal"} : adp = NewStreamAdapter(kind)

NextSnapshot ==
    \/ ReaderSnapshotMessage
    \/ ReaderDeltaMessage
    \/ GetSnapshotCalled
    \/ GetSnapshotWaits
    \/ GetSnapshotReturns
    \/ GetSnapshotTimesOut

SpecSnapshot == InitSnapshot /\ [][NextSnapshot]_vars

(* SpecChannel: a reader, its update channel and the worker's consumer *)
InitChannel ==
    /\ ob = New
    /\ wpc = "start"
    /\ rpc = "idle"
    /\ fetched = Snapshot(0, <<>>, <<>>)
    /\ registry = {Tag}
    /\ mode = "zero"
    /\ emitted = 0
    /\ delivered = 0
    /\ lastOp = "New"
    /\ lastUpd = NoUpdate
    /\ appliedNow = <<>>
    /\ agg = NewAggregator
    /\ srv = NewServer
    /\ orch = NewOrchestrator
    /\ adp = NewChannelAdapter

NextChannel ==
    \/ UpdateChanReaderReturns
    \/ UpdateChanRead
    \/ UpdateChanSend
    \/ UpdateChanReceive
    \/ UpdateChanCancel

SpecChannel == InitChannel /\ [][NextChannel]_vars

(* SpecFilter: FilterLevels on every list of up to MaxFilterLevels levels,  *)
(* with prices on and next to the ends of the band of each best ask         *)
FilterPrices == {1, 2, 10, 12, 13}

FilterBestAsks == {0, 5, 6}

InitFilter ==
    /\ ob = New
    /\ wpc = "start"
    /\ rpc = "idle"
    /\ fetched = Snapshot(0, <<>>, <<>>)
    /\ registry = {}
    /\ mode = "zero"
    /\ emitted = 0
    /\ delivered = 0
    /\ lastOp = "New"
    /\ lastUpd = NoUpdate
    /\ appliedNow = <<>>
    /\ srv = NewServer
    /\ orch = NewOrchestrator
    /\ adp = NewAdapter("ws")
    /\ \E levels \in SeqsUpTo({[Price |-> p, Quantity |-> q] :
                                   p \in FilterPrices, q \in 1 .. MaxQty},
                               MaxFilterLevels),
          bestAsk \in FilterBestAsks, isBid \in BOOLEAN :
          agg = NewFilterCall(levels, bestAsk, isBid)

NextFilter == FilterLevelsReturns

SpecFilter == InitFilter /\ [][NextFilter]_vars

---------------------------------------------------------------------------
(* Properties *)

Loaded == wpc \in {"loaded", "processed", "registered", "stopped"}

TrueBestBid == IF DOMAIN ob.bids = {} THEN 0 ELSE SetMax(Prices(ob.bids))

TrueBestAsk == IF DOMAIN ob.asks = {} THEN 0 ELSE SetMin(Prices(ob.asks))

(* C1: after LoadSnapshot and any applied updates the cached best ask is    *)
(* the lowest stored ask price, and 0 exactly when no ask is stored         *)
C1_BestAskIsMinAsk ==
    Loaded => /\ ob.stats.BestAsk = TrueBestAsk
              /\ (ob.stats.BestAsk = 0 <=> DOMAIN ob.asks = {})

(* C2: after LoadSnapshot and any applied updates the cached best bid is    *)
(* the highest stored bid price; with no bid stored it is 0 and so is the   *)
(* spread                                                                   *)
C2_BestBidIsMaxBid ==
    Loaded => /\ ob.stats.BestBid = TrueBestBid
              /\ ob.bestBid = TrueBestBid
              /\ (DOMAIN ob.bids = {} => ob.stats.BestBid = 0 /\ ob.stats.Spread = 0)

(* the snapshot held one bid level, and the one update applied since left   *)
(* no bid: that level was removed                                           *)
C2_Witness ==
    /\ wpc = "processed"
    /\ ob.bidLevels = 1
    /\ ob.stats.EventsProcessed = 1
    /\ DOMAIN ob.bids = {}
    /\ ob.stats.BestBid = 0
    /\ ob.stats.Spread = 0

(* C3: when the buffered events that are not stale chain from the snapshot  *)
(* (the first starts at or before lastUpdateID + 1, each next one starts at *)
(* the previous final id + 1), ProcessBufferedEvents applies all of them in *)
(* order and lastUpdateID ends at the final id of the last one              *)
C3_ChainApplied ==
    [][LET NotStale(e) == e.FinalUpdateID > ob.lastUpdateID
           chain == SelectSeq(ob.eventBuffer, NotStale)
       IN (/\ lastOp' = "ProcessBufferedEvents"
           /\ chain # <<>>
           /\ chain[1].FirstUpdateID <= ob.lastUpdateID + 1
           /\ \A i \in 1 .. Len(chain) - 1 :
                chain[i + 1].FirstUpdateID = chain[i].FinalUpdateID + 1)
          => /\ ob'.initialized
             /\ appliedNow' = chain
             /\ ob'.lastUpdateID = chain[Len(chain)].FinalUpdateID]_vars

(* what applying the entries of levels, in order, makes of one side *)
LevelsApplied(old, new, levels) ==
    \A k \in DOMAIN old \cup DOMAIN new \cup {levels[i].Price : i \in 1 .. Len(levels)} :
        LET idx == {i \in 1 .. Len(levels) : levels[i].Price = k}
        IN IF idx = {}
           THEN /\ k \in DOMAIN new <=> k \in DOMAIN old
                /\ k \in DOMAIN old => new[k] = old[k]
           ELSE LET q == NewFromString(levels[SetMax(idx)].Quantity).val
                IN IF q = 0
                   THEN k \notin DOMAIN new
                   ELSE /\ k \in DOMAIN new
                        /\ new[k] = [Price |-> NewFromString(k).val, Quantity |-> q]

(* C4: HandleDepthUpdate on an initialized book with an update whose        *)
(* PrevUpdateID is lastUpdateID applies it: its levels are inserted,        *)
(* overwritten or removed, lastUpdateID becomes its FinalUpdateID and       *)
(* EventsProcessed grows by exactly one                                     *)
C4_InSequenceApplied ==
    [][(/\ lastOp' = "HandleDepthUpdate"
        /\ ob.initialized
        /\ lastUpd'.PrevUpdateID = ob.lastUpdateID)
       => /\ appliedNow' = <<lastUpd'>>
          /\ ob'.lastUpdateID = lastUpd'.FinalUpdateID
          /\ ob'.stats.EventsProcessed = ob.stats.EventsProcessed + 1
          /\ LevelsApplied(ob.bids, ob'.bids, lastUpd'.Bids)
          /\ LevelsApplied(ob.asks, ob'.asks, lastUpd'.Asks)
          /\ ob'.eventBuffer = ob.eventBuffer]_vars

(* an update stamped with all-zero ids was applied to an initialized book:  *)
(* only the in-sequence rule accepts it, and it carried a bid level         *)
C4_Witness ==
    /\ lastOp = "HandleDepthUpdate"
    /\ mode = "zero"
    /\ wpc = "processed"
    /\ appliedNow = <<lastUpd>>
    /\ lastUpd.Bids # <<>>
    /\ ob.stats.EventsProcessed >= 2

BookUnchanged ==
    /\ ob'.bids = ob.bids
    /\ ob'.asks = ob.asks
    /\ ob'.lastUpdateID = ob.lastUpdateID
    /\ ob'.stats = ob.stats

DiscardsStale ==
    lastOp' = "ProcessBufferedEvents"
    => \A i \in 1 .. Len(appliedNow') : appliedNow'[i].FinalUpdateID > ob.lastUpdateID

(* C5 as stated: an update whose FinalUpdateID is at most lastUpdateID      *)
(* never changes bids, asks, lastUpdateID or the stats, whether it arrives  *)
(* before or after initialization, and ProcessBufferedEvents applies no     *)
(* such event                                                               *)
C5_StaleNeverApplied ==
    [][/\ (lastOp' = "HandleDepthUpdate" /\ lastUpd'.FinalUpdateID <= ob.lastUpdateID)
          => BookUnchanged
       /\ DiscardsStale]_vars

(* C5 amended: an update whose FinalUpdateID is at most lastUpdateID leaves *)
(* bids, asks, lastUpdateID and the stats as they were, unless it reaches   *)
(* an initialized book with PrevUpdateID equal to lastUpdateID;             *)
(* ProcessBufferedEvents applies no event whose FinalUpdateID is at most    *)
(* lastUpdateID                                                             *)
C5_StaleUnlessInSequence ==
    [][/\ (/\ lastOp' = "HandleDepthUpdate"
           /\ lastUpd'.FinalUpdateID <= ob.lastUpdateID
           /\ ~(ob.initialized /\ lastUpd'.PrevUpdateID = ob.lastUpdateID))
          => BookUnchanged
       /\ DiscardsStale]_vars

(* an initialized book was handed an update, carrying a bid level, that     *)
(* ends at or before lastUpdateID and does not continue it: left buffered   *)
C5_Witness ==
    /\ lastOp = "HandleDepthUpdate"
    /\ ob.initialized
    /\ lastUpd.FinalUpdateID <= ob.lastUpdateID
    /\ lastUpd.PrevUpdateID # ob.lastUpdateID
    /\ lastUpd.Bids # <<>>
    /\ appliedNow = <<>>
    /\ ob.eventBuffer # <<>>
    /\ ob.eventBuffer[Len(ob.eventBuffer)] = lastUpd

(* C6: every ProcessBufferedEvents ends with initialized = TRUE and an      *)
(* empty event buffer, whatever the buffer held                             *)
C6_ProcessedIsInitialized ==
    lastOp \in {"ProcessBufferedEvents", "ReinitProcessBufferedEvents"}
    => ob.initialized /\ ob.eventBuffer = <<>>

(* ProcessBufferedEvents ran on a buffer of at least two events, none of    *)
(* which it applied, the last of them beyond lastUpdateID + 1               *)
C6_Witness ==
    /\ lastOp = "ProcessBufferedEvents"
    /\ delivered >= 2
    /\ appliedNow = <<>>
    /\ emitted > ob.lastUpdateID + 1
    /\ ob.initialized
    /\ ob.eventBuffer = <<>>

(* a reinitialization has fetched a snapshot and has run to its end *)
Recovered ==
    /\ fetched # Snapshot(0, <<>>, <<>>)
    /\ rpc = "idle"
    /\ ob.initialized

(* C7: the reinitialization's ProcessBufferedEvents leaves the book         *)
(* initialized with an empty buffer, and from then on every update the      *)
(* venue emits in sequence beyond the book's lastUpdateID is applied, not   *)
(* buffered                                                                 *)
C7_ResumesAfterReinit ==
    [][/\ lastOp' = "ReinitProcessBufferedEvents"
          => ob'.initialized /\ ob'.eventBuffer = <<>>
       /\ (/\ Recovered
           /\ lastOp' = "HandleDepthUpdate"
           /\ lastUpd'.FinalUpdateID > ob.lastUpdateID)
          => appliedNow' = <<lastUpd'>>]_vars

(* C8: an initialized book with both sides stored is neither crossed nor    *)
(* locked: its highest bid price is below its lowest ask price              *)
C8_NeverCrossed ==
    ob.initialized
    => \/ DOMAIN ob.bids = {}
       \/ DOMAIN ob.asks = {}
       \/ TrueBestBid < TrueBestAsk

C10_RegisteredIsInitialized ==
    Tag \in registry => ob.initialized

(* C10 amended: a book enters the registry only when the worker's           *)
(* ProcessBufferedEvents has returned, and the flag of a registered book    *)
(* is cleared by nothing but the flip of CheckAndReinitialize               *)
C10_RegisteredAfterProcessing ==
    [][/\ (Tag \in registry' /\ Tag \notin registry) => wpc = "processed"
       /\ (Tag \in registry /\ ob.initialized /\ ~ob'.initialized)
          => lastOp' = "ReinitFlip"]_vars

(* a registered book left uninitialized by a reinitialization whose         *)
(* snapshot fetch failed                                                    *)
C10_Witness ==
    /\ Tag \in registry
    /\ ~ob.initialized
    /\ lastOp = "GetSnapshotFails"
    /\ rpc = "idle"

(* the sum of the quantities stored under the given keys of one side *)
RECURSIVE SumQty(_, _)
SumQty(side, keys) ==
    IF keys = {} THEN 0
    ELSE LET k == CHOOSE x \in keys : TRUE
         IN side[k].Quantity + SumQty(side, keys \ {k})

(* C16: after every stats refresh TotalBidsQty and TotalAsksQty are the     *)
(* sums of all stored bid and ask quantities and TotalDelta is their        *)
(* difference, also when one side of the book is empty                      *)
C16_TotalsAreSums ==
    Loaded => /\ ob.stats.TotalBidsQty = SumQty(ob.bids, DOMAIN ob.bids)
              /\ ob.stats.TotalAsksQty = SumQty(ob.asks, DOMAIN ob.asks)
              /\ ob.stats.TotalDelta = ob.stats.TotalBidsQty - ob.stats.TotalAsksQty

(* the keys of a side whose price is within permille/1000 of the mid price  *)
(* (TrueBestBid + TrueBestAsk)/2, below it for bids and above it for asks   *)
BidBandKeys(permille) ==
    {k \in DOMAIN ob.bids :
        2000 * ob.bids[k].Price >= (1000 - permille) * (TrueBestBid + TrueBestAsk)}

AskBandKeys(permille) ==
    {k \in DOMAIN ob.asks :
        2000 * ob.asks[k].Price <= (1000 + permille) * (TrueBestBid + TrueBestAsk)}

(* C17: after every stats refresh with both sides stored, each band's bid   *)
(* and ask liquidity is the sum of the quantities within the band around    *)
(* the mid price and each delta is bid minus ask; with a side empty the six *)
(* band values and the three deltas are 0                                   *)
C17_BandsAreSums ==
    Loaded =>
      LET s == ob.stats
      IN IF DOMAIN ob.bids # {} /\ DOMAIN ob.asks # {}
         THEN /\ s.BidLiquidity05Pct = SumQty(ob.bids, BidBandKeys(5))
              /\ s.BidLiquidity2Pct = SumQty(ob.bids, BidBandKeys(20))
              /\ s.BidLiquidity10Pct = SumQty(ob.bids, BidBandKeys(100))
              /\ s.AskLiquidity05Pct = SumQty(ob.asks, AskBandKeys(5))
              /\ s.AskLiquidity2Pct = SumQty(ob.asks, AskBandKeys(20))
              /\ s.AskLiquidity10Pct = SumQty(ob.asks, AskBandKeys(100))
              /\ s.DeltaLiquidity05Pct = s.BidLiquidity05Pct - s.AskLiquidity05Pct
              /\ s.DeltaLiquidity2Pct = s.BidLiquidity2Pct - s.AskLiquidity2Pct
              /\ s.DeltaLiquidity10Pct = s.BidLiquidity10Pct - s.AskLiquidity10Pct
         ELSE /\ s.BidLiquidity05Pct = 0 /\ s.AskLiquidity05Pct = 0
              /\ s.BidLiquidity2Pct = 0 /\ s.AskLiquidity2Pct = 0
              /\ s.BidLiquidity10Pct = 0 /\ s.AskLiquidity10Pct = 0
              /\ s.DeltaLiquidity05Pct = 0 /\ s.DeltaLiquidity2Pct = 0
              /\ s.DeltaLiquidity10Pct = 0

(* the same bands around the mid price of the cached best prices, in the    *)
(* states where the cached best prices are the stored ones                  *)
C17_BandsWhenBestCached ==
    (Loaded /\ ob.stats.BestBid = TrueBestBid /\ ob.stats.BestAsk = TrueBestAsk)
    => C17_BandsAreSums

(* C18 as stated: Spread = max(0, BestAsk - BestBid) of the cached best     *)
(* prices in every state                                                    *)
C18_SpreadIsMaxZeroDiff ==
    Loaded => ob.stats.Spread =
                 IF ob.stats.BestAsk - ob.stats.BestBid > 0
                 THEN ob.stats.BestAsk - ob.stats.BestBid ELSE 0

(* C18 amended: Spread = max(0, BestAsk - BestBid) when both cached best    *)
(* prices are non-zero, and 0 when either of them is 0                      *)
C18_SpreadOfPresentSides ==
    Loaded => ob.stats.Spread =
                 IF ob.stats.BestBid # 0 /\ ob.stats.BestAsk # 0
                    /\ ob.stats.BestAsk - ob.stats.BestBid > 0
                 THEN ob.stats.BestAsk - ob.stats.BestBid ELSE 0

(* no bid is stored, an ask is, its price is the cached best ask, and the   *)
(* spread is 0                                                              *)
C18_Witness ==
    /\ wpc = "processed"
    /\ ob.stats.EventsProcessed >= 1
    /\ DOMAIN ob.bids = {}
    /\ DOMAIN ob.asks # {}
    /\ ob.stats.BestBid = 0
    /\ ob.stats.BestAsk = TrueBestAsk
    /\ ob.stats.Spread = 0

(* the greatest multiple of tick that is <= price *)
FloorBucket(price, tick) ==
    CHOOSE b \in price - tick + 1 .. price : b % tick = 0

(* the least multiple of tick that is >= price *)
CeilBucket(price, tick) ==
    CHOOSE b \in price .. price + tick - 1 : b % tick = 0

(* the bucket the aggregator call in agg should put price in *)
BucketOf(price) ==
    IF agg.side = "bid" THEN FloorBucket(price, agg.tick) ELSE CeilBucket(price, agg.tick)

(* the sum of the quantities of the entries I of levels *)
RECURSIVE SumQuantities(_, _)
SumQuantities(levels, I) ==
    IF I = {} THEN 0
    ELSE LET i == CHOOSE i \in I : TRUE
         IN levels[i].Quantity + SumQuantities(levels, I \ {i})

(* C19: what AggregateBids / AggregateAsks returns has exactly one level    *)
(* per distinct bucket of the input (floor(price/tick)*tick for bids,       *)
(* ceil(price/tick)*tick for asks), each with the sum of the quantities of  *)
(* the input levels in that bucket; the total quantity is conserved, a      *)
(* tick-aligned price is its own bucket, and under tick 10 the bids         *)
(* 50001/1, 50005/1.5, 50009/2 give exactly (50000, 4.5) and the asks       *)
(* 50001/1, 50009/2 give exactly (50010, 3)                                 *)
C19_TickBucketing ==
    agg.pc = "returned" =>
        LET in == agg.input
            out == agg.output
        IN /\ {out[i].Price : i \in DOMAIN out} = {BucketOf(in[j].Price) : j \in DOMAIN in}
           /\ \A i, k \in DOMAIN out : out[i].Price = out[k].Price => i = k
           /\ \A i \in DOMAIN out :
                 out[i].Quantity =
                     SumQuantities(in, {j \in DOMAIN in : BucketOf(in[j].Price) = out[i].Price})
           /\ SumQuantities(out, DOMAIN out) = SumQuantities(in, DOMAIN in)
           /\ \A j \in DOMAIN in :
                 in[j].Price % agg.tick = 0 => \E i \in DOMAIN out : out[i].Price = in[j].Price
           /\ (agg.tick = 200 /\ agg.side = "bid" /\ in = ExampleBids)
                 => out = <<Level(1000000, 90)>>
           /\ (agg.tick = 200 /\ agg.side = "ask" /\ in = ExampleAsks)
                 => out = <<Level(1000200, 60)>>

(* AggregateBids has merged two bids at different prices into one bucket    *)
(* below both and kept a third bid in another bucket                        *)
C19_Witness ==
    /\ agg.pc = "returned"
    /\ agg.side = "bid"
    /\ Len(agg.input) = 3
    /\ Len(agg.output) = 2
    /\ \E j, k \in DOMAIN agg.input, i \in DOMAIN agg.output :
          /\ agg.input[j].Price # agg.input[k].Price
          /\ agg.output[i].Price < agg.input[j].Price
          /\ agg.output[i].Price < agg.input[k].Price
          /\ agg.output[i].Quantity = agg.input[j].Quantity + agg.input[k].Quantity

(* the book a message was built from is not crossed: bids and asks as      *)
(* stored when one of the two sides was copied                             *)
RawNotCrossed(bids, asks) ==
    \/ DOMAIN bids = {}
    \/ DOMAIN asks = {}
    \/ SetMax(Prices(bids)) < SetMin(Prices(asks))

PublishedBestBid == NewFromString(agg.msg.Bids[1].Price).val

PublishedBestAsk == NewFromString(agg.msg.Asks[1].Price).val

(* C20: in a built orderbook message the first bid is at most the highest  *)
(* bid of the book and the first ask at least the lowest ask of the book,  *)
(* each as the book stood when that side was copied; and when the book was *)
(* not crossed at either copy, the first bid of the message is not above   *)
(* its first ask                                                           *)
C20_PublishedWithinBest ==
    agg.pc = "built" =>
        /\ agg.msg.Bids # <<>> => PublishedBestBid <= SetMax(Prices(agg.bidsMap))
        /\ agg.msg.Asks # <<>> => PublishedBestAsk >= SetMin(Prices(agg.asksMap))
        /\ (/\ agg.msg.Bids # <<>>
            /\ agg.msg.Asks # <<>>
            /\ RawNotCrossed(agg.bidsMap, agg.asksAtBids)
            /\ RawNotCrossed(ob.bids, agg.asksMap))
              => PublishedBestBid <= PublishedBestAsk

(* the same for the messages whose two copies were taken from one state of *)
(* the book: there the first bid is strictly below the first ask           *)
C20_WhenReadTogether ==
    (agg.pc = "built" /\ agg.asksAtBids = agg.asksMap /\ agg.msg.Bids # <<>>
        /\ agg.msg.Asks # <<>> /\ RawNotCrossed(agg.bidsMap, agg.asksMap))
      => PublishedBestBid < PublishedBestAsk

(* C11: the publish loop is never held at a send on the broadcast channel: *)
(* it never stands at one of its two sends while the channel is full (the  *)
(* message would be dropped and the loop would go on)                      *)
C11_PublisherNeverHeld ==
    srv.ppc \in {"sendOrderbook", "sendStats"} => srv.broadcast < BroadcastCapacity

(* C12: after a failed write the broadcast loop gets the write lock it     *)
(* asks for, so that the client is removed and every goroutine goes on: it *)
(* never waits in Lock while it is itself inside the read section, which   *)
(* Lock waits to see left                                                  *)
C12_FailedClientRemoved ==
    srv.bpc = "lock" => "broadcast" \notin srv.readers

(* what follows a failed write: the broadcast loop stays in Lock, the      *)
(* client stays in the set, the publish loop starts no further tick and no *)
(* client is added or removed                                              *)
C12_HeldForever ==
    [][srv.bpc = "lock"
         => /\ srv'.bpc = "lock"
            /\ srv'.clients = srv.clients
            /\ srv.failed \in srv'.clients
            /\ (srv.ppc = "tick" => srv'.ppc = "tick")]_vars

(* C13: when the goroutine of a cycle is about to start its workers, every *)
(* worker of the cycle before has returned and the registry is empty; once *)
(* the registry has been cleared for a symbol change, a book in it was     *)
(* built for a symbol the orchestrator has received, and for the current   *)
(* symbol whenever the orchestrator waits in its select; no client socket  *)
(* is closed                                                               *)
C13_SymbolChangeCycle ==
    /\ orch.gpc = "start"
         => registry = {} /\ \A v \in Venues : orch.wk[v] \in {"none", "exited"}
    /\ orch.cycle >= 1 => \A v \in registry : orch.bookSymbol[v] \in orch.received
    /\ orch.opc = "select" => \A v \in registry : orch.bookSymbol[v] = orch.currentSymbol
    /\ \A c \in Clients : srv.sock[c] = "open"

(* the same, but for the books built for a symbol read while currentSymbol *)
(* was being assigned                                                      *)
C13_ExceptTornReads ==
    /\ orch.gpc = "start"
         => registry = {} /\ \A v \in Venues : orch.wk[v] \in {"none", "exited"}
    /\ \A v \in registry : orch.bookSymbol[v] \in orch.received \cup {TornSymbol}
    /\ orch.opc = "select" => \A v \in registry : orch.bookSymbol[v] = orch.currentSymbol
    /\ \A c \in Clients : srv.sock[c] = "open"

(* C14: an interrupt that has been taken from the channel has been taken   *)
(* by the orchestrator, which closes done and returns once the workers     *)
(* have                                                                    *)
C14_InterruptShutsDown ==
    orch.taker \in {"none", "orchestrator"}

(* after another goroutine has taken the interrupt the orchestrator does   *)
(* not shut down                                                           *)
C14_TakenElsewhereNoShutdown ==
    [][orch.taker \in {"worker", "reinit", "logger"}
         => orch'.opc \notin {"shutdown", "returned"}]_vars

(* C15: the symbol-change channel holds at most one request; a request     *)
(* that arrived while another was pending or while the orchestrator was    *)
(* tearing down does not keep its reader at the send on a full channel,    *)
(* and is never received by the orchestrator as a cycle of its own         *)
C15_RequestsCoalesce ==
    /\ Len(orch.symbolChange) <= 1
    /\ \A c \in Clients :
          (orch.reader[c] = "send" /\ orch.want[c] \in orch.redundant)
              => Len(orch.symbolChange) < 1
    /\ orch.redundant \cap orch.received = {}

(* C21: aggregating an aggregated slice again under the same tick gives   *)
(* the same buckets: the same set of (price, quantity) levels, for bids    *)
(* and for asks                                                            *)
C21_AggregationIdempotent ==
    agg.pc = "again" =>
        {agg.again[i] : i \in DOMAIN agg.again} = {agg.output[i] : i \in DOMAIN agg.output}

(* asks off the multiples of the tick have been merged into two buckets,  *)
(* and these have been aggregated again                                    *)
C21_Witness ==
    /\ agg.pc = "again"
    /\ agg.side = "ask"
    /\ Len(agg.output) = 2
    /\ Len(agg.again) = 2
    /\ \E j \in DOMAIN agg.input : agg.input[j].Price % agg.tick # 0
    /\ \E i \in DOMAIN agg.output : agg.output[i].Quantity > 2

(* C22: a set_tick request makes the requested tick the current one if it  *)
(* is one of 0.1, 1, 10, 50, 100 and leaves the current tick as it was     *)
(* otherwise; the current tick is always one of the five                   *)
C22_SetTickValidated ==
    [][/\ agg'.tick \in AvailableTickLevels
       /\ (agg.pc = "idle" /\ agg'.pc = "idle")
            => agg'.tick = IF agg'.requested \in AvailableTickLevels
                           THEN agg'.requested ELSE agg.tick]_vars

(* a request for a tick that is not available has left the tick, changed  *)
(* before by a request for tick 10, as it was                              *)
C22_Witness ==
    /\ agg.pc = "idle"
    /\ agg.requested = 7
    /\ agg.tick = 200

(* the number a wire field stands for *)
WireValue(s) == NewFromString(s).val

(* the sum of the quantities of the first k entries of a side *)
RECURSIVE WireQuantitySum(_, _)
WireQuantitySum(side, k) ==
    IF k = 0 THEN 0 ELSE WireValue(side[k].Quantity) + WireQuantitySum(side, k - 1)

(* C24: in a built orderbook message the bid prices strictly descend and   *)
(* the ask prices strictly ascend, and the cumulative field of the k-th    *)
(* entry of a side is the sum of the quantities of its entries 1..k        *)
C24_SortedWithRunningSums ==
    agg.pc = "built" =>
        /\ \A i, j \in DOMAIN agg.msg.Bids :
              i < j => WireValue(agg.msg.Bids[i].Price) > WireValue(agg.msg.Bids[j].Price)
        /\ \A i, j \in DOMAIN agg.msg.Asks :
              i < j => WireValue(agg.msg.Asks[i].Price) < WireValue(agg.msg.Asks[j].Price)
        /\ \A k \in DOMAIN agg.msg.Bids :
              WireValue(agg.msg.Bids[k].Cumulative) = WireQuantitySum(agg.msg.Bids, k)
        /\ \A k \in DOMAIN agg.msg.Asks :
              WireValue(agg.msg.Asks[k].Cumulative) = WireQuantitySum(agg.msg.Asks, k)

(* a message with two bid buckets, one of them merged from two levels, and *)
(* two ask buckets                                                         *)
C24_Witness ==
    /\ agg.pc = "built"
    /\ Len(agg.msg.Bids) = 2
    /\ Len(agg.msg.Asks) = 2
    /\ \E k \in DOMAIN agg.msg.Bids : WireValue(agg.msg.Bids[k].Quantity) = 2
    /\ WireValue(agg.msg.Bids[2].Cumulative) = 3


(* -------- C23: what a publish tick enqueues -------- *)

(* the messages of the current tick are those of the exchanges found       *)
(* initialized, in that order, an orderbook message then a stats message   *)
SentOfOrder ==
    /\ Len(srv.sent) = 2 * Len(srv.order)
                         - (CASE srv.ppc = "sendOrderbook" -> 2
                              [] srv.ppc = "sendStats" -> 1
                              [] OTHER -> 0)
    /\ \A k \in DOMAIN srv.sent :
          srv.sent[k] = <<srv.order[(k + 1) \div 2],
                          IF k % 2 = 1 THEN "orderbook" ELSE "stats">>
    /\ \A j, k \in DOMAIN srv.order : srv.order[j] = srv.order[k] => j = k
    /\ {srv.order[k] : k \in DOMAIN srv.order} \subseteq srv.yielded
    /\ srv.lastTick = "skipped" => srv.sent = <<>> /\ srv.ppc = "tick"
    /\ (srv.ppc = "tick" /\ srv.lastTick = "ranged")
          => (srv.atStart \cap registry) \subseteq srv.yielded

C29_AppliedIffContinuous ==
    [][lastOp' = "HandleDepthUpdate"
       => IF /\ ob.initialized
             /\ \/ lastUpd'.PrevUpdateID = ob.lastUpdateID
                \/ /\ lastUpd'.FirstUpdateID <= ob.lastUpdateID + 1
                   /\ lastUpd'.FinalUpdateID > ob.lastUpdateID
          THEN /\ appliedNow' = <<lastUpd'>>
               /\ ob'.eventBuffer = ob.eventBuffer
               /\ ob'.lastUpdateID = lastUpd'.FinalUpdateID
               /\ ob'.stats.EventsProcessed = ob.stats.EventsProcessed + 1
          ELSE /\ appliedNow' = <<>>
               /\ ob' = [ob EXCEPT !.eventBuffer = Append(@, lastUpd')]]_vars

(* a numbered stream: an update with no previous id was applied to a book   *)
(* that had already applied an update, so by the overlap rule alone         *)
C29_Witness ==
    /\ lastOp = "HandleDepthUpdate"
    /\ mode = "ids"
    /\ appliedNow = <<lastUpd>>
    /\ lastUpd.PrevUpdateID = 0
    /\ lastUpd.FirstUpdateID < lastUpd.FinalUpdateID
    /\ ob.stats.EventsProcessed >= 2

(* -------- C30: updates with made-up ids -------- *)

(* C30: when the adapter makes up the ids of its updates, all zero or the   *)
(* time of the message with the time less one as previous id, every update *)
(* handed to an initialized book is applied and none is buffered as a gap  *)
C30_SynthesizedAlwaysApplied ==
    [][(lastOp' = "HandleDepthUpdate" /\ ob.initialized)
       => /\ appliedNow' = <<lastUpd'>>
          /\ ob'.eventBuffer = ob.eventBuffer]_vars

(* the all-zero half of it *)
ZeroAlwaysApplied ==
    [][(lastOp' = "HandleDepthUpdate" /\ ob.initialized /\ mode = "zero")
       => /\ appliedNow' = <<lastUpd'>>
          /\ ob'.eventBuffer = ob.eventBuffer]_vars

(* -------- C25: updates are applied in the order of emission -------- *)

(* C25: the updates applied to a venue's book are applied in the order the  *)
(* adapter emitted them, none twice and none after a later one, whether     *)
(* applied directly, from the buffer by ProcessBufferedEvents, or after a   *)
(* reinitialization                                                         *)
C25_AppliedInEmittedOrder ==
    /\ ob.inOrder
    /\ ob.lastApplied <= delivered
    /\ \A i \in DOMAIN appliedNow : appliedNow[i].Index <= ob.lastApplied

(* a reinitialization took an update from the buffer and applied it to a    *)
(* book that had applied updates directly before                            *)
C25_Witness ==
    /\ lastOp = "ReinitProcessBufferedEvents"
    /\ appliedNow # <<>>
    /\ ob.stats.EventsProcessed > Len(appliedNow)
    /\ ob.inOrder

(* -------- C26: a worker that fails -------- *)

(* the worker of v returned before it started its reinit goroutine *)
Failed(v) == orch.wk[v] = "exited" /\ orch.rg[v] = "none"

(* C26: a worker whose adapter creation, Connect, GetSnapshot or            *)
(* LoadSnapshot fails exits without registering a book; its failure leaves  *)
(* the registry and every other worker as they were, a worker that has      *)
(* registered has its venue in the registry, and the failed venue is absent *)
(* until a later cycle starts a new worker for it                           *)
C26_FailedWorkerAlone ==
    [][\A v \in Venues :
         /\ Failed(v)' => v \notin registry'
         /\ (orch.wk[v] = "starting" /\ Failed(v)')
               => /\ registry' = registry
                  /\ \A w \in Venues \ {v} :
                        orch'.wk[w] = orch.wk[w] /\ orch'.rg[w] = orch.rg[w]
         /\ (Failed(v) /\ ~Failed(v)')
               => orch'.wk[v] = "starting" /\ orch'.wcyc[v] > orch.wcyc[v]
         /\ orch'.wk[v] = "waiting" => v \in registry']_vars

(* in a second cycle one worker has failed and the other is registered *)
C26_Witness ==
    /\ Failed(Tag)
    /\ orch.wk["venue2"] = "waiting"
    /\ registry = {"venue2"}
    /\ orch.cycle >= 1

(* -------- C27: the transport fails under the reader -------- *)

C28_CloseIdempotent ==
    /\ [](adp.doneCloses <= 1 /\ adp.chanCloses <= 1)
    /\ (adp.closes >= 1) ~> (adp.chanClosed /\ adp.consumer = "ended")

(* Close has returned twice, the reader was stopped by it *)
C28_Witness ==
    /\ adp.closes = 2
    /\ ~adp.readFailed
    /\ adp.doneCloses = 1
    /\ adp.chanCloses = 1
    /\ adp.consumer = "ended"

(* -------- C31: a poll as a replacement of the book -------- *)

(* the prices of the levels of a poll that carry a quantity *)
PollPrices(levels) ==
    {levels[i].Price : i \in {j \in DOMAIN levels : ~IsZero(NewFromString(levels[j].Quantity).val)}}

(* C31: for the polled venue, whose updates carry all-zero ids, the stored  *)
(* bid and ask levels after an applied update are exactly the levels of     *)
(* that poll: a level stored before and absent from the poll is gone        *)
C31_PollReplacesBook ==
    [][(/\ lastOp' = "HandleDepthUpdate"
        /\ mode = "zero"
        /\ appliedNow' = <<lastUpd'>>
        /\ PollPrices(lastUpd'.Bids) # {})
       => /\ DOMAIN ob'.bids = PollPrices(lastUpd'.Bids)
          /\ DOMAIN ob'.asks = PollPrices(lastUpd'.Asks)]_vars

(* -------- C32: the registry map and its mutex -------- *)

(* the publish loop is inside its range over s.orderbooks *)
Ranging == srv.ppc \in {"range", "sendOrderbook", "sendStats"}

(* C32: every access to the registry map is made under the registry mutex,  *)
(* which workers and the orchestrator hold while they write: so while the   *)
(* publish loop is iterating over the map no insert, delete or clear        *)
(* changes it, and the runtime never finds the map written under the range  *)
C32_RangeExcludesWrites ==
    [][/\ Ranging => registry' = registry
       /\ srv'.ppc # "crashed"]_vars

(* -------- C33: the level counts of the stats -------- *)

(* C33: after every applied update stats.BidLevels is the number of stored  *)
(* bid levels and stats.AskLevels the number of stored ask levels           *)
C33_LevelCountsCurrent ==
    (lastOp = "HandleDepthUpdate" /\ appliedNow # <<>>)
    => /\ ob.stats.BidLevels = Cardinality(DOMAIN ob.bids)
       /\ ob.stats.AskLevels = Cardinality(DOMAIN ob.asks)

(* -------- C34: the snapshot of a stream-sourced adapter -------- *)

(* C34: the stored snapshot is written by the first snapshot message of the *)
(* session and never replaced; a GetSnapshot call returns it or, having     *)
(* waited the whole timeout, fails; a call made when it is stored returns   *)
(* it, so that every call after one that returned a snapshot returns that   *)
(* same first snapshot                                                      *)
C34_FirstSnapshotKept ==
    [][/\ adp.snapshot # 0 => adp'.snapshot = adp.snapshot
       /\ adp'.snapshot = adp'.first
       /\ \A i \in DOMAIN adp'.results :
             /\ adp'.results[i] \in {0, adp'.first}
             /\ \A j \in DOMAIN adp'.results :
                   (i < j /\ adp'.results[i] # 0) => adp'.results[j] = adp'.results[i]
       /\ (Len(adp'.results) > Len(adp.results) /\ adp'.results[Len(adp'.results)] = 0)
             => adp.elapsed = SnapshotTimeout
       /\ (Len(adp'.results) > Len(adp.results) /\ adp.elapsed = 0)
             => adp'.results[Len(adp'.results)] = adp.first /\ adp.first # 0]_vars

(* a call timed out, the first snapshot came, a later snapshot message was  *)
(* ignored and two calls made after it returned the first snapshot          *)
C34_Witness ==
    /\ Len(adp.results) = 3
    /\ adp.results[1] = 0
    /\ adp.results[2] = adp.first
    /\ adp.results[3] = adp.first
    /\ adp.first # 0
    /\ adp.latest > adp.first
    /\ adp.snapshot = adp.first

---------------------------------------------------------------------------
(* the entries of a snapshot side stored by a load: for each price text of  *)
(* an entry with a non-zero quantity, the last such entry                   *)
NonZeroAt(levels) ==
    {i \in DOMAIN levels : ~IsZero(NewFromString(levels[i].Quantity).val)}

LoadedSide(levels) ==
    [k \in {levels[i].Price : i \in NonZeroAt(levels)} |->
        LET last == CHOOSE i \in NonZeroAt(levels) :
                        /\ levels[i].Price = k
                        /\ \A j \in NonZeroAt(levels) :
                               levels[j].Price = k => j <= i
        IN [Price |-> NewFromString(k).val,
            Quantity |-> NewFromString(levels[last].Quantity).val]]

ReinitLoadSucceeds == rpc = "load" /\ rpc' = "process"

ReinitLoadFails == rpc = "load" /\ rpc' = "idle"

(* C35: after a successful LoadSnapshot(s) the book holds exactly the       *)
(* entries of s with a non-zero quantity and none of the levels stored      *)
(* before, lastUpdateID is s.LastUpdateID, and the cached best prices and   *)
(* the stats are recomputed from the stored levels.                         *)
C35_LoadReplacesBook ==
    [][ReinitLoadSucceeds =>
          /\ ob'.bids = LoadedSide(fetched.Bids)
          /\ ob'.asks = LoadedSide(fetched.Asks)
          /\ ob'.lastUpdateID = fetched.LastUpdateID
          /\ ob'.bestBid = SetMax(Prices(ob'.bids) \cup {0})
          /\ ob'.bestAsk = IF DOMAIN ob'.asks = {} THEN 0
                            ELSE SetMin(Prices(ob'.asks))
          /\ ob'.bidLevels = Cardinality(DOMAIN ob'.bids)
          /\ ob'.askLevels = Cardinality(DOMAIN ob'.asks)
          /\ ob'.stats.BidLevels = ob'.bidLevels
          /\ ob'.stats.AskLevels = ob'.askLevels
          /\ ob'.stats.BestBid = ob'.bestBid
          /\ ob'.stats.BestAsk = ob'.bestAsk
          /\ ob'.stats.BufferedEvents = Len(ob'.eventBuffer)]_vars

(* a load over a book that held a bid and an ask the snapshot does not list *)
C35_Witness ==
    /\ lastOp = "LoadSnapshot"
    /\ rpc = "process"
    /\ fetched.Bids = <<Level(DecStr(2, 0), DecStr(2, 0))>>
    /\ fetched.Asks = <<Level(DecStr(2, 0), DecStr(0, 0))>>
    /\ DOMAIN ob.bids = {DecStr(2, 0)}
    /\ DOMAIN ob.asks = {}
    /\ ob.bestBid = 2
    /\ ob.bestAsk = 0


(* a call of LoadSnapshot, by the worker or by CheckAndReinitialize *)
LoadSnapshotStep ==
    \/ wpc = "start" /\ wpc' # "start"
    \/ rpc = "load" /\ rpc' # "load"

(* C36: LoadSnapshot leaves the initialized flag and the event buffer as    *)
(* they were, whether it succeeds or returns an error.                      *)
C36_LoadKeepsFlagAndBuffer ==
    [][LoadSnapshotStep =>
          /\ ob'.initialized = ob.initialized
          /\ ob'.eventBuffer = ob.eventBuffer]_vars

(* a load that returned an error over a book with buffered events *)
C36_Witness ==
    /\ lastOp = "LoadSnapshot"
    /\ rpc = "idle"
    /\ ob.lastUpdateID = fetched.LastUpdateID
    /\ Len(ob.eventBuffer) > ReinitBufferThreshold
    /\ ~ob.initialized

(* the entries of a snapshot side in front of the first one that does not  *)
(* parse                                                                    *)
Unparsed(levels) ==
    {i \in DOMAIN levels : \/ NewFromString(levels[i].Price).err
                            \/ NewFromString(levels[i].Quantity).err}

ParsedPrefix(levels) ==
    IF Unparsed(levels) = {} THEN levels
    ELSE SubSeq(levels, 1, SetMin(Unparsed(levels)) - 1)

(* C37: when LoadSnapshot returns a parse error the book already has the    *)
(* snapshot's lastUpdateID and holds only the snapshot entries parsed in    *)
(* front of the failing one, and neither the stats nor the level counts     *)
(* are refreshed for that partial state.                                    *)
C37_FailedLoadIsPartial ==
    [][ReinitLoadFails =>
          /\ ob'.lastUpdateID = fetched.LastUpdateID
          /\ ob'.bids = LoadedSide(ParsedPrefix(fetched.Bids))
          /\ ob'.asks = IF Unparsed(fetched.Bids) # {} THEN EmptyMap
                         ELSE LoadedSide(ParsedPrefix(fetched.Asks))
          /\ ob'.stats = ob.stats
          /\ ob'.bidLevels = ob.bidLevels
          /\ ob'.askLevels = ob.askLevels]_vars

(* a failed load: the old bid and ask are gone, the one entry parsed before *)
(* the failing one is stored, and the stats still count the old levels      *)
C37_Witness ==
    /\ lastOp = "LoadSnapshot"
    /\ rpc = "idle"
    /\ fetched.Bids = <<Level(DecStr(2, 0), DecStr(2, 0)),
                         Level(NotANumber, DecStr(2, 0))>>
    /\ DOMAIN ob.bids = {DecStr(2, 0)}
    /\ DOMAIN ob.asks = {}
    /\ ob.lastUpdateID = fetched.LastUpdateID
    /\ ob.stats.AskLevels = 1
    /\ ob.stats.BestBid = 1

(* the updates in the event buffer *)
Buffered(b) == {b.eventBuffer[i] : i \in DOMAIN b.eventBuffer}

AppliedNext == {appliedNow'[i] : i \in DOMAIN appliedNow'}

ProcessBufferedEventsStep ==
    \/ wpc = "loaded" /\ wpc' = "processed"
    \/ rpc = "process" /\ rpc' = "idle"

(* C38: only ProcessBufferedEvents empties the event buffer: while the book *)
(* stays initialized the buffer never gets shorter, an update buffered on   *)
(* an initialized book (a gap) is not applied while the book stays          *)
(* initialized, and a buffered update is applied only by                    *)
(* ProcessBufferedEvents and only if it straddles the lastUpdateID of the   *)
(* snapshot loaded before.                                                  *)
C38_BufferEmptiedOnlyByProcess ==
    [][/\ Len(ob'.eventBuffer) < Len(ob.eventBuffer) => ProcessBufferedEventsStep
       /\ ob.initialized /\ ob'.initialized
              => /\ Len(ob'.eventBuffer) >= Len(ob.eventBuffer)
                 /\ AppliedNext \cap Buffered(ob) = {}
       /\ \A e \in AppliedNext \cap Buffered(ob) :
              /\ ProcessBufferedEventsStep
              /\ e.FirstUpdateID <= ob.lastUpdateID + 1
              /\ e.FinalUpdateID > ob.lastUpdateID]_vars

(* a reinitialization has applied an update that was buffered as a gap:     *)
(* the update was delivered before the reinitialization began               *)
C38_Witness ==
    /\ lastOp = "ReinitProcessBufferedEvents"
    /\ \E i \in DOMAIN appliedNow :
          /\ appliedNow[i].Index <= ReinitBufferThreshold + MaxBuffer
          /\ appliedNow[i].FinalUpdateID = fetched.LastUpdateID + 1

(* the updates of a sequence, and a sequence whose ids grow *)
Ids(s) == {s[i] : i \in DOMAIN s}

Growing(s) == \A i, j \in DOMAIN s : i < j => s[i] < s[j]

(* every update read so far is in exactly one place, and the updates the    *)
(* engine has received or will receive are in the venue's order             *)
UpdatesInOrder ==
    /\ Growing(adp.seen \o adp.queue)
    /\ Ids(adp.seen \o adp.queue) \cap (adp.dropped \cup adp.lost) = {}
    /\ Ids(adp.seen \o adp.queue) \cup adp.dropped \cup adp.lost
           = (1 .. adp.next - 1) \ {adp.pending}

(* the reader's send with the channel full and no stop signalled *)
SendOnFull ==
    /\ adp.reader = "store"
    /\ adp'.reader # "store"
    /\ Len(adp.queue) = MaxQueued
    /\ ~adp.cancelled

(* C39: the reader does not wait on updateChan: its send step can always be *)
(* taken; with the channel full and no stop signalled it discards the       *)
(* converted update, leaves the channel as it is and returns the reader to  *)
(* its loop; with room in the channel nothing is discarded; and the updates *)
(* the engine receives and those still queued are in the order the venue    *)
(* sent them, each one at most once.                                        *)
C39_FullChannelDrops ==
    /\ [](adp.reader = "store" => ENABLED UpdateChanSend)
    /\ [](UpdatesInOrder)
    /\ [][/\ SendOnFull => /\ adp'.queue = adp.queue
                           /\ adp'.dropped = adp.dropped \cup {adp.pending}
                           /\ adp'.reader = "select"
          /\ Len(adp.queue) < MaxQueued => adp'.dropped = adp.dropped]_vars

(* the engine has missed update 3, discarded on a full channel, and has    *)
(* received update 4 after updates 1 and 2                                  *)
C39_Witness ==
    /\ adp.kind = "chan"
    /\ adp.seen = <<1, 2, 4>>
    /\ adp.dropped = {3}
    /\ adp.lost = {}
    /\ ~adp.cancelled

(* the places of the levels FilterLevels is to keep *)
KeptPlaces(levels, bestAsk, isBid) ==
    {i \in DOMAIN levels :
        isBid => /\ 5 * levels[i].Price >= bestAsk
                 /\ levels[i].Price <= 2 * bestAsk}

(* the levels at the given places, in the order of the places *)
LevelsAt(levels, places) ==
    [k \in 1 .. Cardinality(places) |->
        levels[CHOOSE i \in places :
                  Cardinality({j \in places : j < i}) = k - 1]]

(* C40: FilterLevels returns its input unchanged when bestAsk is 0; for     *)
(* bids it keeps exactly the levels with 0.2*bestAsk <= price <= 2*bestAsk, *)
(* in input order; for asks it keeps every level.                           *)
C40_FilterLevelsBand ==
    agg.pc = "returned"
       => /\ agg.bestAsk = 0 => agg.result = agg.levels
          /\ agg.bestAsk # 0 /\ agg.isBid
                => agg.result = LevelsAt(agg.levels,
                                   KeptPlaces(agg.levels, agg.bestAsk, TRUE))
          /\ ~agg.isBid => agg.result = agg.levels

(* a call on bids with best ask 5 that keeps the level at 10, the upper end  *)
(* of the band, and drops the level at 12                                   *)
C40_Witness ==
    /\ agg.pc = "returned"
    /\ agg.isBid
    /\ agg.bestAsk = 5
    /\ agg.levels = <<[Price |-> 12, Quantity |-> 1], [Price |-> 10, Quantity |-> 1]>>
    /\ agg.result = <<[Price |-> 10, Quantity |-> 1]>>

====
